---- MODULE Spec2Model ----
(***************************************************************************)
(* A state-machine model of the Artive API (FastAPI + SQLAlchemy): the     *)
(* users, email_verification_tokens, artworks and blog_posts tables and    *)
(* the route handlers and service methods that read and write them.        *)
(*                                                                         *)
(* Time is counted in minutes.  Emails, slugs, passwords and token strings   *)
(* are drawn from small sets of naturals; 0 stands for the empty string    *)
(* (falsy in Python) and None for Python's None / an unset field.          *)
(***************************************************************************)
EXTENDS Integers, FiniteSets, Sequences, TLC

\* ---------------------------------------------------------------- bounds
MaxTokens == 2
MaxTicks == 2
TickMinutes == 720
MaxArtworks == 2
MaxViews == 2
MaxMinutes == 2
MaxPosts == 2
MaxRequests == 2
MaxHistories == 2
MaxObjects == 2
MaxRefresh == 3
MaxRows == 2

\* ------------------------------------------------------ program constants
ACCESS_TOKEN_EXPIRE_MINUTES == 30
REFRESH_TOKEN_EXPIRE_DAYS == 7
\* timedelta(hours=24) of create_verification_token and of cleanup_unverified_users
VerificationTokenMinutes == 24 * 60
CleanupAgeMinutes == 24 * 60

None == 0 - 1
Null == 0 - 2

VARIABLES
    users,        \* users table: id -> row
    tokens,       \* email_verification_tokens table: set of rows
    nextToken,    \* the next fresh value of secrets.token_urlsafe
    sessions,     \* emails for which an unexpired access JWT is in circulation
    now,          \* datetime.utcnow(), in minutes
    resp,         \* the last request and its response
    issued,       \* history: token -> email, every token ever issued
    verify_ok,    \* history: token -> number of successful verifications
    verified_by,  \* history: user id -> how is_verified became true ("no", "seed", "token")
    artworks,     \* artworks table: id -> row
    posts,        \* blog_posts table: id -> row
    pending,      \* requests in flight between two of their commits: request -> its state
    histories,    \* artwork_histories table: id -> row
    history_images, \* artwork_history_images table: id -> row
    s3,           \* the storage bucket: the URLs of the objects it holds
    refresh_tokens, \* refresh_tokens table: id -> row
    exhibitions,  \* exhibitions table: id -> row
    awards,       \* awards table: id -> row
    uploaded_by   \* history: stored object URL -> the user whose request put it

vars == <<users, tokens, nextToken, sessions, now, resp, issued, verify_ok, verified_by,
          artworks, posts, pending,
                   histories, history_images, s3, refresh_tokens, exhibitions, awards, uploaded_by>>

\* ------------------------------------------------------------ input sets
\* Two accounts: enough for "another user" in every uniqueness and ownership rule.
UserIds == {1, 2}
\* Email k is the address seeded for user k; 3 is an address nobody has.
Emails == {1, 2, 3}
\* Slug 0 is the empty string; slug k is the one seeded for user k; 3 is free.
EmptySlug == 0
Slugs == {0, 1, 2, 3}
\* Password 0 is the empty string (a missing field), 1 the seeded one, 2 a wrong one.
Passwords == 0..2
SeedPassword == 1
TokenIds == 1..MaxTokens

\* ----------------------------------------------------- schemas/user.py
\* The fields a parsed UserCreate body carries (extra keys are dropped by pydantic).
UserCreate == {"email", "password", "name", "slug", "bio"}

\* --------------------------------------------------- services/auth_service
hash_password(password) == <<"bcrypt", password>>

verify_password(plain_password, hashed_password) ==
    hashed_password = hash_password(plain_password)

get_user_by_email(email) ==
    IF \E u \in DOMAIN users : users[u].email = email
    THEN CHOOSE u \in DOMAIN users : users[u].email = email
    ELSE None

get_user_by_slug(slug) ==
    IF \E u \in DOMAIN users : users[u].slug = slug
    THEN CHOOSE u \in DOMAIN users : users[u].slug = slug
    ELSE None

\* (mutant) the columns declared without unique=True
UsersConstraintOK_NotUnique(tbl) ==
    \A u \in DOMAIN tbl : tbl[u].email # None /\ tbl[u].slug # None

\* users.email and users.slug are UNIQUE NOT NULL columns: a commit that would
\* break either raises IntegrityError.
UsersConstraintOK(tbl) ==
    /\ \A u \in DOMAIN tbl : tbl[u].email # None /\ tbl[u].slug # None
    /\ \A u1, u2 \in DOMAIN tbl :
          u1 # u2 => tbl[u1].email # tbl[u2].email /\ tbl[u1].slug # tbl[u2].slug

\* The last request (op, who: the caller, key and arg: its parameters) and its
\* response (the HTTP status code, which branch answered, the listed ids, the total).
Reply(op, code, detail, who, key, arg) ==
    [op |-> op, code |-> code, detail |-> detail, who |-> who, key |-> key,
     arg |-> arg, items |-> {}, total |-> 0]

NewUserRow(email, password, slug) ==
    [password |-> hash_password(password), email |-> email, slug |-> slug,
     is_verified |-> FALSE, is_active |-> TRUE, created_at |-> now,
     last_login |-> None, total_artworks |-> 0, is_public_gallery |-> TRUE]

NewUserId == IF DOMAIN users = {} THEN 1
             ELSE (CHOOSE m \in DOMAIN users : \A u \in DOMAIN users : u <= m) + 1

\* (mutant) create_user without its email check
create_user_outcome_NoEmailCheck(email, slug) ==
    IF get_user_by_slug(slug) # None THEN "slug_taken"
    ELSE IF "role" \notin UserCreate THEN "error"
    ELSE "created"

\* The outcome of AuthService.create_user: "email_taken" / "slug_taken" (HTTP 400),
\* "error" (the body has no attribute `role`: AttributeError at the User(...)
\* constructor call, before db.add), or "created".
create_user_outcome(email, slug) ==
    IF get_user_by_email(email) # None THEN "email_taken"
    ELSE IF get_user_by_slug(slug) # None THEN "slug_taken"
    ELSE IF "role" \notin UserCreate THEN "error"
    ELSE "created"

\* (mutant) create_verification_token without the delete of the email's old rows
create_verification_token_NoDelete(email, tok) ==
    tokens \cup {[email |-> email, token |-> tok,
                  expiry_date |-> now + VerificationTokenMinutes, is_used |-> FALSE]}

\* The tokens table after AuthService.create_verification_token(email) issued `tok`.
create_verification_token(email, tok) ==
    {t \in tokens : t.email # email}
        \cup {[email |-> email, token |-> tok,
               expiry_date |-> now + VerificationTokenMinutes, is_used |-> FALSE]}

\* (mutant) the query without its is_used filter
verify_email_query_IgnoresUsed(tok) ==
    {t \in tokens : t.token = tok /\ t.expiry_date > now}

\* The row AuthService.verify_email_token's query finds for `tok`, as a set (empty: no row).
verify_email_query(tok) ==
    {t \in tokens : t.token = tok /\ t.is_used = FALSE /\ t.expiry_date > now}

\* --------------------------------------------------------- routers/auth
\* get_current_user: cred is the email in the bearer JWT's "sub", None without a
\* header; a JWT that was never issued or has expired does not verify.
get_current_user(cred) ==
    IF cred = None \/ cred \notin sessions THEN None ELSE get_user_by_email(cred)

\* POST /api/auth/register
register(email, password, slug) ==
    LET outcome == create_user_outcome(email, slug) IN
    /\ nextToken <= MaxTokens
    /\ IF outcome = "created"
       THEN /\ users' = (NewUserId :> NewUserRow(email, password, slug)) @@ users
            /\ tokens' = create_verification_token(email, nextToken)
            /\ issued' = (nextToken :> email) @@ issued
            /\ verify_ok' = (nextToken :> 0) @@ verify_ok
            /\ nextToken' = nextToken + 1
            /\ resp' = Reply("register", 201, "created", None, email, slug)
       ELSE /\ UNCHANGED <<users, tokens, issued, verify_ok, nextToken>>
            /\ resp' = Reply("register", IF outcome = "error" THEN 500 ELSE 400,
                             outcome, None, email, slug)
    /\ UNCHANGED <<sessions, now, verified_by, artworks, posts, pending,
                   histories, history_images, s3, refresh_tokens, exhibitions, awards, uploaded_by>>

\* (mutant) login without the is_verified check
login_NoVerifiedCheck(email, password) ==
    LET found == get_user_by_email(email)
        user == IF found # None /\ verify_password(password, users[found].password)
                THEN found ELSE None
    IN
    /\ IF user = None
       THEN /\ resp' = Reply("login", 401, "bad_credentials", None, email, password)
            /\ UNCHANGED <<users, sessions>>
       ELSE IF ~users[user].is_active
       THEN /\ resp' = Reply("login", 403, "inactive", None, email, password)
            /\ UNCHANGED <<users, sessions>>
       ELSE /\ sessions' = sessions \cup {email}
            /\ users' = [users EXCEPT ![user].last_login = now]
            /\ resp' = Reply("login", 200, "token", None, email, password)
    /\ UNCHANGED <<tokens, nextToken, now, issued, verify_ok, verified_by, artworks, posts, pending,
                   histories, history_images, s3, refresh_tokens, exhibitions, awards, uploaded_by>>

\* POST /api/auth/login
login(email, password) ==
    LET found == get_user_by_email(email)
        user == IF found # None /\ verify_password(password, users[found].password)
                THEN found ELSE None   \* AuthService.authenticate_user
    IN
    /\ IF user = None
       THEN /\ resp' = Reply("login", 401, "bad_credentials", None, email, password)
            /\ UNCHANGED <<users, sessions>>
       ELSE IF ~users[user].is_verified
       THEN /\ resp' = Reply("login", 403, "unverified", None, email, password)
            /\ UNCHANGED <<users, sessions>>
       ELSE IF ~users[user].is_active
       THEN /\ resp' = Reply("login", 403, "inactive", None, email, password)
            /\ UNCHANGED <<users, sessions>>
       ELSE /\ sessions' = sessions \cup {email}
            /\ users' = [users EXCEPT ![user].last_login = now]
            /\ resp' = Reply("login", 200, "token", None, email, password)
    /\ UNCHANGED <<tokens, nextToken, now, issued, verify_ok, verified_by, artworks, posts, pending,
                   histories, history_images, s3, refresh_tokens, exhibitions, awards, uploaded_by>>

\* GET /api/auth/verify-email
verify_email(tok) ==
    LET rows == verify_email_query(tok)
        row == CHOOSE t \in rows : TRUE
        user == IF rows = {} THEN None ELSE get_user_by_email(row.email)
    IN
    /\ IF rows # {} /\ user # None
       THEN /\ users' = [users EXCEPT ![user].is_verified = TRUE]
            /\ tokens' = (tokens \ {row}) \cup {[row EXCEPT !.is_used = TRUE]}
            /\ verify_ok' = [verify_ok EXCEPT ![tok] = @ + 1]
            /\ verified_by' = [verified_by EXCEPT ![user] =
                                   IF users[user].is_verified THEN @ ELSE "token"]
            /\ resp' = Reply("verify_email", 200, "verified", None, tok, None)
       ELSE /\ UNCHANGED <<users, tokens, verify_ok, verified_by>>
            /\ resp' = Reply("verify_email", 400, "invalid_or_expired", None, tok, None)
    /\ UNCHANGED <<nextToken, sessions, now, issued, artworks, posts, pending,
                   histories, history_images, s3, refresh_tokens, exhibitions, awards, uploaded_by>>

\* POST /api/auth/resend-verification
resend_verification(email) ==
    LET user == get_user_by_email(email) IN
    /\ nextToken <= MaxTokens
    /\ IF user = None
       THEN /\ resp' = Reply("resend_verification", 404, "no_user", None, email, None)
            /\ UNCHANGED <<tokens, nextToken, issued, verify_ok>>
       ELSE IF users[user].is_verified
       THEN /\ resp' = Reply("resend_verification", 400, "already_verified", None, email, None)
            /\ UNCHANGED <<tokens, nextToken, issued, verify_ok>>
       ELSE /\ tokens' = create_verification_token(email, nextToken)
            /\ issued' = (nextToken :> email) @@ issued
            /\ verify_ok' = (nextToken :> 0) @@ verify_ok
            /\ nextToken' = nextToken + 1
            /\ resp' = Reply("resend_verification", 200, "reissued", None, email, nextToken)
    /\ UNCHANGED <<users, sessions, now, verified_by, artworks, posts, pending,
                   histories, history_images, s3, refresh_tokens, exhibitions, awards, uploaded_by>>

\* ------------------------------------------------------ routers/profile
\* PUT /api/profile/profile/basic (the first handler registered for the path).
\* slug: the body's slug; None when the key is absent, Null when it is JSON null.
update_basic_info(cred, slug) ==
    LET current_user == get_current_user(cred)
        truthy == slug \notin {None, Null, EmptySlug}
        changed == IF slug = None THEN users
                   ELSE [users EXCEPT ![current_user].slug =
                                         IF slug = Null THEN None ELSE slug]
    IN
    /\ IF current_user = None
       THEN \* current_user.slug / db.refresh(None) raises: 500
            /\ resp' = Reply("update_basic_info", 500, "no_user", cred, slug, None)
            /\ UNCHANGED users
       ELSE IF /\ truthy
               /\ slug # users[current_user].slug
               /\ \E u \in DOMAIN users : users[u].slug = slug /\ u # current_user
       THEN /\ resp' = Reply("update_basic_info", 400, "slug_taken", cred, slug, None)
            /\ UNCHANGED users
       ELSE IF UsersConstraintOK(changed)
       THEN /\ users' = changed
            /\ resp' = Reply("update_basic_info", 200, "updated", cred, slug, None)
       ELSE \* db.commit() raises IntegrityError, which the handler does not catch
            /\ resp' = Reply("update_basic_info", 500, "integrity_error", cred, slug, None)
            /\ UNCHANGED users
    /\ UNCHANGED <<tokens, nextToken, sessions, now, issued, verify_ok, verified_by,
                   artworks, posts, pending,
                   histories, history_images, s3, refresh_tokens, exhibitions, awards, uploaded_by>>

\* ------------------------------------------------------- routers/upload
\* An object URL is <<folder, slug, n>>: the key {folder}/{slug}/{name n}.
\* cleanup_user_s3_files(user_slug): the objects under the user's prefixes.
user_s3_files(user_slug) == {o \in s3 : o[2] = user_slug}

\* The empty string in a URL column or field.
NoUrl == <<>>

\* (mutant) storage in which no delete fails
s3_after_deletes_AllSucceed(targets, failed) == s3 \ targets

\* The bucket after delete_s3_file was called for each of `targets` and failed
\* (returned False) for those in `failed`.
s3_after_deletes(targets, failed) == s3 \ (targets \ failed)

\* POST /api/upload/image: the object goes under blog/{slug}/ with a fresh
\* name; put_object may fail.
upload_blog_image(cred) ==
    LET current_user == get_current_user(cred)
        used == s3 \cup {posts[p].featured_image : p \in DOMAIN posts}
                   \cup UNION {posts[p].content_images : p \in DOMAIN posts}
        n == CHOOSE k \in 1..(MaxObjects + 1) : \A o \in used \ {NoUrl} : o[3] # k
    IN
    /\ Cardinality(used \ {NoUrl}) < MaxObjects
    /\ IF current_user = None
       THEN \* get_current_user_required
            /\ resp' = Reply("upload_blog_image", 401, "invalid_token", cred, None, None)
            /\ UNCHANGED <<s3, uploaded_by>>
       ELSE \E put_ok \in BOOLEAN :
            IF put_ok
            THEN /\ s3' = s3 \cup {<<"blog", users[current_user].slug, n>>}
                 /\ uploaded_by' = (<<"blog", users[current_user].slug, n>> :> current_user)
                                       @@ [o \in DOMAIN uploaded_by \cap s3 |-> uploaded_by[o]]
                 /\ resp' = [Reply("upload_blog_image", 200, "uploaded", cred, None, None)
                                 EXCEPT !.items = {<<"blog", users[current_user].slug, n>>}]
            ELSE /\ resp' = Reply("upload_blog_image", 500, "upload_failed", cred, None, None)
                 /\ UNCHANGED <<s3, uploaded_by>>
    /\ UNCHANGED <<users, tokens, nextToken, sessions, now, issued, verify_ok,
                   verified_by, artworks, posts, pending, histories, history_images,
                   refresh_tokens, exhibitions, awards>>

\* DELETE /api/auth/account.  Of the individual delete_s3_file calls and of
\* cleanup_user_s3_files any subset can fail (each failure is caught and
\* printed); the commit can fail, which rolls the session back.
delete_account(cred, password) ==
    LET current_user == get_current_user(cred)
        own == {a \in DOMAIN artworks : artworks[a].user_id = current_user}
        left_histories == [h \in {x \in DOMAIN histories :
                                     histories[x].artwork_id \notin own} |-> histories[h]]
    IN
    IF current_user = None
    THEN \* get_current_user_required
         /\ resp' = Reply("delete_account", 401, "invalid_token", cred, password, None)
         /\ UNCHANGED <<users, tokens, nextToken, sessions, now, issued, verify_ok,
                        verified_by, artworks, posts, pending, histories, history_images,
                        s3, refresh_tokens, exhibitions, awards, uploaded_by>>
    ELSE IF password = 0
    THEN /\ resp' = Reply("delete_account", 400, "password_missing", cred, password, None)
         /\ UNCHANGED <<users, tokens, nextToken, sessions, now, issued, verify_ok,
                        verified_by, artworks, posts, pending, histories, history_images,
                        s3, refresh_tokens, exhibitions, awards, uploaded_by>>
    ELSE IF ~verify_password(password, users[current_user].password)
    THEN /\ resp' = Reply("delete_account", 400, "password_mismatch", cred, password, None)
         /\ UNCHANGED <<users, tokens, nextToken, sessions, now, issued, verify_ok,
                        verified_by, artworks, posts, pending, histories, history_images,
                        s3, refresh_tokens, exhibitions, awards, uploaded_by>>
    ELSE \E failed \in SUBSET user_s3_files(users[current_user].slug), db_ok \in BOOLEAN :
         /\ s3' = s3_after_deletes(user_s3_files(users[current_user].slug), failed)
         /\ IF db_ok
            THEN /\ history_images' =
                       [i \in {x \in DOMAIN history_images :
                                  history_images[x].history_id \in DOMAIN left_histories}
                           |-> history_images[i]]
                 /\ histories' = left_histories
                 /\ artworks' = [a \in DOMAIN artworks \ own |-> artworks[a]]
                 /\ posts' = [p \in {x \in DOMAIN posts :
                                        posts[x].user_id # current_user} |-> posts[p]]
                 /\ exhibitions' = [r \in {x \in DOMAIN exhibitions :
                                              exhibitions[x].user_id # current_user}
                                       |-> exhibitions[r]]
                 /\ awards' = [r \in {x \in DOMAIN awards :
                                         awards[x].user_id # current_user} |-> awards[r]]
                 /\ tokens' = {t \in tokens : t.email # users[current_user].email}
                 /\ users' = [u \in DOMAIN users \ {current_user} |-> users[u]]
                 /\ resp' = [Reply("delete_account", 200, "deleted", cred, password, None)
                                 EXCEPT !.items = failed]
            ELSE \* db.rollback(): 500
                 /\ resp' = [Reply("delete_account", 500, "db_error", cred, password, None)
                                 EXCEPT !.items = failed]
                 /\ UNCHANGED <<users, tokens, artworks, posts, histories, history_images,
                                exhibitions, awards>>
         /\ UNCHANGED <<nextToken, sessions, now, issued, verify_ok, verified_by, pending,
                        refresh_tokens, uploaded_by>>

\* --------------------------------------------------- services/scheduler
\* (mutant) the query without its is_verified filter
expired_users_AnyUser ==
    {u \in DOMAIN users : users[u].created_at <= now - CleanupAgeMinutes}

expired_users ==
    {u \in DOMAIN users :
        users[u].is_verified = FALSE /\ users[u].created_at <= now - CleanupAgeMinutes}

\* (mutant) db.delete(user) skipped when the storage cleanup failed
deleted_by_cleanup_IfListed(listed) == IF listed THEN expired_users ELSE {}

\* The users the loop of the job hands to db.delete: cleanup_user_s3_files
\* returns a dict whether or not storage answered (`listed`), so every user of
\* the query is deleted.
deleted_by_cleanup(listed) == expired_users

\* The hourly job.  Storage may fail to list the folders (nothing is removed
\* from it) or to delete some of the listed objects; the rows go with the one
\* commit that ends the job.
cleanup_unverified_users ==
    LET targets == UNION {user_s3_files(users[u].slug) : u \in expired_users}
    IN
    \E listed \in BOOLEAN, failed \in SUBSET targets :
        /\ users' = [u \in DOMAIN users \ deleted_by_cleanup(listed) |-> users[u]]
        /\ s3' = IF listed THEN s3 \ (targets \ failed) ELSE s3
        /\ resp' = [Reply("cleanup", 0, IF listed THEN "job" ELSE "storage_error", None,
                          Cardinality(expired_users), None)
                        EXCEPT !.items = failed]
        /\ UNCHANGED <<tokens, nextToken, sessions, now, issued, verify_ok, verified_by,
                       artworks, posts, pending, histories, history_images,
                       refresh_tokens, exhibitions, awards, uploaded_by>>

\* ----------------------------------------------------------------- time
\* TickMinutes pass: every access JWT issued so far (lifetime
\* ACCESS_TOKEN_EXPIRE_MINUTES) has expired.
Tick ==
    /\ TickMinutes >= ACCESS_TOKEN_EXPIRE_MINUTES
    /\ now + TickMinutes <= MaxTicks * TickMinutes
    /\ now' = now + TickMinutes
    /\ sessions' = {}
    /\ resp' = Reply("tick", 0, "tick", None, None, None)
    /\ UNCHANGED <<users, tokens, nextToken, issued, verify_ok, verified_by,
                   artworks, posts, pending,
                   histories, history_images, s3, refresh_tokens, exhibitions, awards, uploaded_by>>

\* ------------------------------------------------------- models/artwork
ArtworkStatus == {"work_in_progress", "completed", "archived"}
ArtworkPrivacy == {"public", "private", "unlisted"}

NewArtworkId == IF DOMAIN artworks = {} THEN 1
                ELSE (CHOOSE m \in DOMAIN artworks : \A a \in DOMAIN artworks : a <= m) + 1

\* ------------------------------------------------ services/artwork_service
UserArtworks(user_id) == {a \in DOMAIN artworks : artworks[a].user_id = user_id}

\* (mutant) the count without its user_id filter
artwork_count_query_AllUsers(tbl, user_id) == Cardinality(DOMAIN tbl)

\* db.query(Artwork).filter(Artwork.user_id == user_id).count()
artwork_count_query(tbl, user_id) ==
    Cardinality({a \in DOMAIN tbl : tbl[a].user_id = user_id})

\* The users table after _update_user_artwork_count recounted `tbl` for user_id.
update_user_artwork_count(tbl, user_id) ==
    IF user_id \in DOMAIN users
    THEN [users EXCEPT ![user_id].total_artworks = artwork_count_query(tbl, user_id)]
    ELSE users

\* (mutant) every logged-in caller is treated as the owner
get_artwork_by_id_AnyLoggedIn(artwork_id, user_id) ==
    IF user_id # None
    THEN IF artwork_id \in DOMAIN artworks THEN artwork_id ELSE None
    ELSE IF artwork_id \in DOMAIN artworks /\ artworks[artwork_id].privacy = "public"
         THEN artwork_id ELSE None

\* ArtworkService.get_artwork_by_id: the id of the row it returns, or None.
get_artwork_by_id(artwork_id, user_id) ==
    IF user_id # None
    THEN IF /\ artwork_id \in DOMAIN artworks
            /\ \/ artworks[artwork_id].user_id = user_id
               \/ artworks[artwork_id].privacy = "public"
         THEN artwork_id ELSE None
    ELSE IF artwork_id \in DOMAIN artworks /\ artworks[artwork_id].privacy = "public"
         THEN artwork_id ELSE None

\* (mutant) the stamp without its `not artwork.completed_at` test
stamp_completed_at_Always(status, completed_at) ==
    IF status = "completed" THEN now ELSE completed_at

\* The last statement of update_artwork before the commit: completed_at after
\* the request's status and the row's completed_at (fields already assigned).
stamp_completed_at(status, completed_at) ==
    IF status = "completed" /\ completed_at = None THEN now ELSE completed_at

\* An ArtworkFilter: status and privacy "unset" when the parameter is absent.
\* (year, medium and search select on columns the model does not carry.)
ArtworkFilter(status, privacy, sort_by, sort_order, page, size) ==
    [privacy |-> privacy, status |-> status, sort_by |-> sort_by,
     sort_order |-> sort_order, page |-> page, size |-> size]

SortKey(a, sort_by) ==
    IF sort_by = "view_count" THEN artworks[a].view_count
    ELSE IF sort_by = "like_count" THEN artworks[a].like_count
    ELSE artworks[a].created_at

\* The rows of S in query order; rows with equal keys are listed by id.
RECURSIVE OrderBy(_, _, _)
OrderBy(S, sort_by, sort_order) ==
    LET Before(a, b) ==
            \/ IF sort_order = "asc" THEN SortKey(a, sort_by) < SortKey(b, sort_by)
                                     ELSE SortKey(a, sort_by) > SortKey(b, sort_by)
            \/ SortKey(a, sort_by) = SortKey(b, sort_by) /\ a < b
        first == CHOOSE a \in S : \A b \in S \ {a} : Before(a, b)
    IN IF S = {} THEN << >> ELSE <<first>> \o OrderBy(S \ {first}, sort_by, sort_order)

Min(a, b) == IF a < b THEN a ELSE b

\* (mutant) the query without the viewer test
get_user_artworks_NoViewerCheck(user_id, filters, viewer_id) ==
    LET matched == {a \in UserArtworks(user_id) :
                      /\ filters.status # "unset" => artworks[a].status = filters.status
                      /\ filters.privacy # "unset" =>
                             artworks[a].privacy = filters.privacy}
        total == Cardinality(matched)
        ordered == OrderBy(matched, filters.sort_by, filters.sort_order)
        offset == (filters.page - 1) * filters.size
        pages == IF total > 0 THEN (total + filters.size - 1) \div filters.size ELSE 1
    IN [artworks |-> SubSeq(ordered, offset + 1, Min(offset + filters.size, total)),
        total |-> total, page |-> filters.page, size |-> filters.size, pages |-> pages,
        has_next |-> filters.page < pages, has_prev |-> filters.page > 1]

\* ArtworkService.get_user_artworks: the PaginatedArtworksResponse (artworks as ids).
get_user_artworks(user_id, filters, viewer_id) ==
    LET matched == {a \in UserArtworks(user_id) :
                      /\ viewer_id # user_id => artworks[a].privacy = "public"
                      /\ filters.status # "unset" => artworks[a].status = filters.status
                      /\ filters.privacy # "unset" /\ viewer_id = user_id =>
                             artworks[a].privacy = filters.privacy}
        total == Cardinality(matched)
        ordered == OrderBy(matched, filters.sort_by, filters.sort_order)
        offset == (filters.page - 1) * filters.size
        pages == IF total > 0 THEN (total + filters.size - 1) \div filters.size ELSE 1
    IN [artworks |-> SubSeq(ordered, offset + 1, Min(offset + filters.size, total)),
        total |-> total, page |-> filters.page, size |-> filters.size, pages |-> pages,
        has_next |-> filters.page < pages, has_prev |-> filters.page > 1]

Range(s) == {s[i] : i \in DOMAIN s}

\* ------------------------------------------------------ routers/artwork
\* POST /api/artworks/
create_artwork(cred, privacy) ==
    LET current_user == get_current_user(cred)
        row == [created_at |-> now, user_id |-> current_user,
                privacy |-> privacy, status |-> "work_in_progress",
                completed_at |-> None, view_count |-> 0, like_count |-> 0,
                history_count |-> 0,
                display_order |-> Cardinality(UserArtworks(current_user))]
        inserted == (NewArtworkId :> row) @@ artworks
    IN
    /\ NewArtworkId <= MaxArtworks
    /\ IF current_user = None
       THEN \* current_user.id raises AttributeError: 500
            /\ resp' = Reply("create_artwork", 500, "no_user", cred, None, privacy)
            /\ UNCHANGED <<artworks, users>>
       ELSE /\ artworks' = inserted
            /\ users' = update_user_artwork_count(inserted, current_user)
            /\ resp' = Reply("create_artwork", 201, "created", cred, NewArtworkId, privacy)
    /\ UNCHANGED <<tokens, nextToken, sessions, now, issued, verify_ok, verified_by,
                   posts, pending,
                   histories, history_images, s3, refresh_tokens, exhibitions, awards, uploaded_by>>

\* (mutant) a view that is counted once
increment_view_count_Once(tbl, artwork_id) == [tbl EXCEPT ![artwork_id].view_count = 1]

\* ArtworkService.increment_view_count, when the artwork exists
increment_view_count(tbl, artwork_id) == [tbl EXCEPT ![artwork_id].view_count = @ + 1]

\* GET /api/artworks/{artwork_id}
get_artwork(cred, artwork_id) ==
    LET current_user == get_current_user(cred)
        artwork == get_artwork_by_id(artwork_id, current_user)
        viewed == artwork # None /\ current_user # artworks[artwork].user_id
    IN
    /\ viewed => artworks[artwork].view_count < MaxViews
    /\ IF artwork = None
       THEN /\ resp' = Reply("get_artwork", 404, "not_found", cred, artwork_id, None)
            /\ UNCHANGED artworks
       ELSE /\ artworks' = IF viewed
                           THEN increment_view_count(artworks, artwork)
                           ELSE artworks
            /\ resp' = [Reply("get_artwork", 200, "found", cred, artwork_id, None)
                            EXCEPT !.items = {artwork}, !.total = 1]
    /\ UNCHANGED <<users, tokens, nextToken, sessions, now, issued, verify_ok,
                   verified_by, posts, pending,
                   histories, history_images, s3, refresh_tokens, exhibitions, awards, uploaded_by>>

\* PUT /api/artworks/{artwork_id}.  artwork_data: the ArtworkUpdate body; status
\* and privacy "unset" when absent, completed_at None when absent and Null when
\* JSON null.
update_artwork(cred, artwork_id, artwork_data) ==
    LET current_user == get_current_user(cred)
        found == artwork_id \in DOMAIN artworks
                     /\ artworks[artwork_id].user_id = current_user
        old == artworks[artwork_id]
        assigned ==
            [old EXCEPT
                !.status = IF artwork_data.status = "unset" THEN @ ELSE artwork_data.status,
                !.privacy = IF artwork_data.privacy = "unset" THEN @
                            ELSE artwork_data.privacy,
                !.completed_at = IF artwork_data.completed_at = None THEN @
                                 ELSE IF artwork_data.completed_at = Null THEN None
                                 ELSE artwork_data.completed_at]
    IN
    /\ IF current_user = None
       THEN \* current_user.id raises AttributeError: 500
            /\ resp' = Reply("update_artwork", 500, "no_user", cred, artwork_id, artwork_data)
            /\ UNCHANGED artworks
       ELSE IF ~found
       THEN /\ resp' = Reply("update_artwork", 404, "not_found", cred, artwork_id, artwork_data)
            /\ UNCHANGED artworks
       ELSE /\ artworks' = [artworks EXCEPT ![artwork_id] =
                               [assigned EXCEPT !.completed_at =
                                    stamp_completed_at(artwork_data.status,
                                                       assigned.completed_at)]]
            /\ resp' = Reply("update_artwork", 200, "updated", cred, artwork_id, artwork_data)
    /\ UNCHANGED <<users, tokens, nextToken, sessions, now, issued, verify_ok,
                   verified_by, posts, pending,
                   histories, history_images, s3, refresh_tokens, exhibitions, awards, uploaded_by>>

\* GET /api/artworks/my
get_my_artworks(cred, filters) ==
    LET current_user == get_current_user(cred)
        page == get_user_artworks(current_user, filters, current_user)
    IN
    /\ IF current_user = None
       THEN \* current_user.id raises AttributeError: 500
            resp' = Reply("get_my_artworks", 500, "no_user", cred, None, filters)
       ELSE resp' = [Reply("get_my_artworks", 200, "page", cred, current_user, filters)
                         EXCEPT !.items = Range(page.artworks), !.total = page.total]
    /\ UNCHANGED <<users, tokens, nextToken, sessions, now, issued, verify_ok,
                   verified_by, artworks, posts, pending,
                   histories, history_images, s3, refresh_tokens, exhibitions, awards, uploaded_by>>

\* GET /api/artworks/user/{user_slug}: the route has no privacy parameter.
get_user_gallery_artworks(user_slug, filters) ==
    LET user == get_user_by_slug(user_slug)
        page == get_user_artworks(user, [filters EXCEPT !.privacy = "unset"], None)
    IN
    /\ IF user = None
       THEN resp' = Reply("get_user_gallery_artworks", 404, "no_user", None, user_slug, filters)
       ELSE IF ~users[user].is_public_gallery
       THEN resp' = Reply("get_user_gallery_artworks", 403, "private_gallery", None,
                          user_slug, filters)
       ELSE resp' = [Reply("get_user_gallery_artworks", 200, "page", None, user_slug, filters)
                         EXCEPT !.items = Range(page.artworks), !.total = page.total]
    /\ UNCHANGED <<users, tokens, nextToken, sessions, now, issued, verify_ok,
                   verified_by, artworks, posts, pending,
                   histories, history_images, s3, refresh_tokens, exhibitions, awards, uploaded_by>>

\* ---------------------------------------------------- artwork statistics
RECURSIVE SumOver(_, _)
\* sum(tbl[a] for a in rows), tbl a function from row ids to integers
SumOver(rows, tbl) ==
    IF rows = {} THEN 0
    ELSE LET a == CHOOSE x \in rows : TRUE
         IN tbl[a] + SumOver(rows \ {a}, tbl)

\* max(artworks, key): the first row, in id order, whose key is the greatest.
MaxBy(rows, key) ==
    CHOOSE m \in rows :
        /\ \A a \in rows : key[a] <= key[m]
        /\ \A a \in rows : key[a] = key[m] => m <= a

\* (mutant) the statistics without the view_count > 0 test
get_user_artwork_stats_NoPositiveTest(user_id) ==
    LET rows == UserArtworks(user_id)
        view_count == [a \in rows |-> artworks[a].view_count]
        like_count == [a \in rows |-> artworks[a].like_count]
        created_at == [a \in rows |-> artworks[a].created_at]
    IN [total_artworks |-> Cardinality(rows),
        completed_artworks |-> Cardinality({a \in rows : artworks[a].status = "completed"}),
        work_in_progress |->
            Cardinality({a \in rows : artworks[a].status = "work_in_progress"}),
        archived_artworks |-> Cardinality({a \in rows : artworks[a].status = "archived"}),
        total_views |-> SumOver(rows, view_count),
        total_likes |-> SumOver(rows, like_count),
        total_histories |->
            Cardinality({h \in DOMAIN histories : histories[h].artwork_id \in rows}),
        most_viewed_artwork |-> IF rows # {} THEN MaxBy(rows, view_count) ELSE None,
        recent_artwork |-> IF rows # {} THEN MaxBy(rows, created_at) ELSE None]

\* ArtworkService.get_user_artwork_stats; an artwork is reported by its id.
get_user_artwork_stats(user_id) ==
    LET rows == UserArtworks(user_id)
        view_count == [a \in rows |-> artworks[a].view_count]
        like_count == [a \in rows |-> artworks[a].like_count]
        created_at == [a \in rows |-> artworks[a].created_at]
    IN [total_artworks |-> Cardinality(rows),
        completed_artworks |-> Cardinality({a \in rows : artworks[a].status = "completed"}),
        work_in_progress |->
            Cardinality({a \in rows : artworks[a].status = "work_in_progress"}),
        archived_artworks |-> Cardinality({a \in rows : artworks[a].status = "archived"}),
        total_views |-> SumOver(rows, view_count),
        total_likes |-> SumOver(rows, like_count),
        total_histories |->
            Cardinality({h \in DOMAIN histories : histories[h].artwork_id \in rows}),
        most_viewed_artwork |->
            IF rows # {} /\ view_count[MaxBy(rows, view_count)] > 0
            THEN MaxBy(rows, view_count) ELSE None,
        recent_artwork |-> IF rows # {} THEN MaxBy(rows, created_at) ELSE None]

\* GET /api/artworks/stats; the reply carries the statistics in `stats`.
get_my_artwork_stats(cred) ==
    LET current_user == get_current_user(cred)
    IN
    /\ resp' = IF current_user = None
               THEN Reply("get_my_artwork_stats", 500, "no_user", cred, None, None)
               ELSE [op |-> "get_my_artwork_stats", code |-> 200, detail |-> "stats",
                     who |-> cred, key |-> current_user, arg |-> None, items |-> {},
                     total |-> 0, stats |-> get_user_artwork_stats(current_user)]
    /\ UNCHANGED <<users, tokens, nextToken, sessions, now, issued, verify_ok,
                   verified_by, artworks, posts, pending, histories, history_images,
                   s3, refresh_tokens, exhibitions, awards, uploaded_by>>

\* GET /api/artworks/user/{user_slug}/stats: no caller, no privacy filter.
get_user_gallery_stats(user_slug) ==
    LET user == get_user_by_slug(user_slug) IN
    /\ resp' = IF user = None
               THEN Reply("get_user_gallery_stats", 404, "no_user", None, user_slug, None)
               ELSE IF ~users[user].is_public_gallery
               THEN Reply("get_user_gallery_stats", 403, "private_gallery", None,
                          user_slug, None)
               ELSE [op |-> "get_user_gallery_stats", code |-> 200, detail |-> "stats",
                     who |-> None, key |-> user_slug, arg |-> None, items |-> {},
                     total |-> 0, stats |-> get_user_artwork_stats(user)]
    /\ UNCHANGED <<users, tokens, nextToken, sessions, now, issued, verify_ok,
                   verified_by, artworks, posts, pending, histories, history_images,
                   s3, refresh_tokens, exhibitions, awards, uploaded_by>>

\* (mutant) a like that is counted once
toggle_like_Once(tbl, artwork_id) == [tbl EXCEPT ![artwork_id].like_count = 1]

\* ArtworkService.toggle_like, when the artwork exists
toggle_like(tbl, artwork_id) == [tbl EXCEPT ![artwork_id].like_count = @ + 1]

\* POST /api/artworks/{artwork_id}/like
toggle_artwork_like(cred, artwork_id) ==
    LET current_user == get_current_user(cred)
    IN
    /\ artwork_id \in DOMAIN artworks => artworks[artwork_id].like_count < MaxViews
    /\ IF current_user = None
       THEN /\ resp' = Reply("toggle_artwork_like", 500, "no_user", cred, artwork_id, None)
            /\ UNCHANGED artworks
       ELSE IF artwork_id \notin DOMAIN artworks
       THEN /\ resp' = Reply("toggle_artwork_like", 404, "not_found", cred, artwork_id, None)
            /\ UNCHANGED artworks
       ELSE /\ artworks' = toggle_like(artworks, artwork_id)
            /\ resp' = Reply("toggle_artwork_like", 200, "liked", cred, artwork_id, None)
    /\ UNCHANGED <<users, tokens, nextToken, sessions, now, issued, verify_ok,
                   verified_by, posts, pending, histories, history_images, s3,
                   refresh_tokens, exhibitions, awards, uploaded_by>>

\* ------------------------------------------------- generate_unique_slug
\* A str is a sequence of characters.  str.lower() over the characters used.
lower(c) == IF c = "P" THEN "p" ELSE c

str_lower(text) == [i \in DOMAIN text |-> lower(text[i])]

\* text.replace(" ", "-")
str_replace(text) == [i \in DOMAIN text |-> IF text[i] = " " THEN "-" ELSE text[i]]

Digit(d) == <<"0", "1", "2", "3", "4", "5", "6", "7", "8", "9">>[d + 1]

RECURSIVE Decimal(_)
\* f"{counter}"
Decimal(n) == IF n < 10 THEN <<Digit(n)>> ELSE Decimal(n \div 10) \o <<Digit(n % 10)>>

\* (mutant) an if in place of the while
unique_slug_loop_Once(original_slug, slug, counter) ==
    IF get_user_by_slug(slug) # None
    THEN [slug |-> original_slug \o <<"-">> \o Decimal(counter), counter |-> counter + 1]
    ELSE [slug |-> slug, counter |-> counter]

RECURSIVE unique_slug_loop(_, _, _)
\* The while loop, from the values of slug and counter at its test.
unique_slug_loop(original_slug, slug, counter) ==
    IF get_user_by_slug(slug) # None
    THEN unique_slug_loop(original_slug,
                          original_slug \o <<"-">> \o Decimal(counter), counter + 1)
    ELSE [slug |-> slug, counter |-> counter]

\* AuthService.generate_unique_slug; the reply carries the slug in `key` and
\* the number of times the loop body ran in `total`.
generate_unique_slug(base_slug) ==
    LET original_slug == str_replace(str_lower(base_slug))
        out == unique_slug_loop(original_slug, original_slug, 1)
    IN
    /\ resp' = [Reply("generate_unique_slug", 0, "returned", None, out.slug, base_slug)
                    EXCEPT !.total = out.counter - 1]
    /\ UNCHANGED <<users, tokens, nextToken, sessions, now, issued, verify_ok,
                   verified_by, artworks, posts, pending, histories, history_images,
                   s3, refresh_tokens, exhibitions, awards, uploaded_by>>

\* ------------------------------------------------ services/history_service
\* The module-level names of services/history_service.py (its imports and its
\* class).  extract_youtube_video_id is defined in the class body, so it is an
\* attribute of HistoryService and not a name a method body can read.
history_service_names ==
    {"Session", "and_", "HTTPException", "status", "datetime",
     "Artwork", "ArtworkHistory", "ArtworkHistoryCreate", "HistoryService"}

\* The module-level names of routers/history.py.
history_router_names ==
    {"APIRouter", "Depends", "HTTPException", "status", "Session", "List", "get_db",
     "User", "ArtworkHistory", "ArtworkHistoryCreate", "ArtworkHistoryResponse",
     "get_current_user", "HistoryService", "router"}

NewHistoryId == IF DOMAIN histories = {} THEN 1
                ELSE (CHOOSE m \in DOMAIN histories : \A h \in DOMAIN histories : h <= m) + 1

NewImageId == IF DOMAIN history_images = {} THEN 1
              ELSE (CHOOSE m \in DOMAIN history_images :
                       \A i \in DOMAIN history_images : i <= m) + 1

\* (mutant) the count without its artwork_id filter
history_count_query_AllArtworks(tbl, artwork_id) == Cardinality(DOMAIN tbl)

\* db.query(ArtworkHistory).filter(ArtworkHistory.artwork_id == artwork_id).count()
history_count_query(tbl, artwork_id) ==
    Cardinality({h \in DOMAIN tbl : tbl[h].artwork_id = artwork_id})

\* (mutant) the relationship declared without cascade="all, delete-orphan"
cascade_histories_None(tbl, gone) == tbl

\* Artwork.histories, cascade="all, delete-orphan": the histories table after
\* the artworks `gone` were deleted through the session.
cascade_histories(tbl, gone) ==
    [h \in {x \in DOMAIN tbl : tbl[x].artwork_id \notin gone} |-> tbl[h]]

\* ArtworkHistory.images, cascade="all, delete-orphan": the images table after
\* the histories table became `left`.
cascade_images(left) ==
    [i \in {x \in DOMAIN history_images : history_images[x].history_id \in DOMAIN left}
        |-> history_images[i]]

\* DELETE /api/artworks/{artwork_id}
delete_artwork(cred, artwork_id) ==
    LET current_user == get_current_user(cred)
        found == artwork_id \in DOMAIN artworks
                     /\ artworks[artwork_id].user_id = current_user
        left == [a \in DOMAIN artworks \ {artwork_id} |-> artworks[a]]
        left_histories == cascade_histories(histories, {artwork_id})
    IN
    /\ IF current_user = None
       THEN \* current_user.id raises AttributeError: 500
            /\ resp' = Reply("delete_artwork", 500, "no_user", cred, artwork_id, None)
            /\ UNCHANGED <<artworks, histories, history_images, users>>
       ELSE IF ~found
       THEN /\ resp' = Reply("delete_artwork", 404, "not_found", cred, artwork_id, None)
            /\ UNCHANGED <<artworks, histories, history_images, users>>
       ELSE /\ artworks' = left
            /\ histories' = left_histories
            /\ history_images' = cascade_images(left_histories)
            /\ users' = update_user_artwork_count(left, current_user)
            /\ resp' = [Reply("delete_artwork", 204, "deleted", cred, artwork_id, None)
                            EXCEPT !.items = DOMAIN histories \ DOMAIN left_histories,
                                   !.total = Cardinality(DOMAIN history_images)
                                       - Cardinality(DOMAIN cascade_images(left_histories))]
    /\ UNCHANGED <<tokens, nextToken, sessions, now, issued, verify_ok, verified_by,
                   posts, pending, s3, refresh_tokens, exhibitions, awards, uploaded_by>>

\* GET /api/artworks/{artwork_id}/histories: the ids get_histories_by_artwork lists.
get_histories_by_artwork(artwork_id) ==
    {h \in DOMAIN histories : histories[h].artwork_id = artwork_id}

\* GET /api/artworks/{artwork_id}/histories: no caller, no test of the artwork.
get_histories(artwork_id) ==
    /\ resp' = [Reply("get_histories", 200, "listed", None, artwork_id, None)
                    EXCEPT !.items = get_histories_by_artwork(artwork_id)]
    /\ UNCHANGED <<users, tokens, nextToken, sessions, now, issued, verify_ok,
                   verified_by, artworks, posts, pending, histories, history_images,
                   s3, refresh_tokens, exhibitions, awards, uploaded_by>>

\* No youtube_video_id (None in the column).
NoId == <<>>

\* The characters the pattern's last group refuses.
IdStops == {"\"", "&", "?", "/", " "}

\* A media URL is <<site, route, tail>>: https://{site}/{route}{tail}, tail a
\* sequence of characters.  extract_youtube_video_id: re.search of
\* (?:youtube\.com\/(?:[^\/]+\/.+\/|(?:v|e(?:mbed)?)\/|.*[?&]v=)|youtu\.be\/)([^"&?\/\s]{11})
extract_youtube_video_id(url) ==
    IF \/ url[1] = "youtube.com" /\ url[2] \in {"watch?v=", "embed/", "v/", "e/"}
       \/ url[1] = "youtu.be" /\ url[2] = ""
    THEN IF Len(url[3]) >= 11 /\ \A i \in 1..11 : url[3][i] \notin IdStops
         THEN SubSeq(url[3], 1, 11)
         ELSE NoId
    ELSE NoId

\* POST /api/artworks/{artwork_id}/histories (HistoryService.create_history).
\* media_type, media_url: the body's fields; images: whether the body's images
\* list is non-empty.  The reply carries <<media_type, media_url>> in `items`.
add_history(cred, artwork_id, media_type, media_url, images) ==
    LET current_user == get_current_user(cred)
        history == [artwork_id |-> artwork_id,
                    order_index |-> history_count_query(histories, artwork_id),
                    youtube_video_id |-> NoId]
        inserted == (NewHistoryId :> history) @@ histories
    IN
    /\ NewHistoryId <= MaxHistories
    /\ NewImageId <= MaxHistories
    /\ IF current_user = None
       THEN \* current_user.id raises AttributeError: 500
            /\ resp' = [Reply("add_history", 500, "no_user", cred, artwork_id, images)
                            EXCEPT !.items = {<<media_type, media_url>>}]
            /\ UNCHANGED <<artworks, histories, history_images>>
       ELSE IF artwork_id \notin DOMAIN artworks
       THEN /\ resp' = [Reply("add_history", 404, "not_found", cred, artwork_id, images)
                            EXCEPT !.items = {<<media_type, media_url>>}]
            /\ UNCHANGED <<artworks, histories, history_images>>
       ELSE IF artworks[artwork_id].user_id # current_user
       THEN /\ resp' = [Reply("add_history", 403, "forbidden", cred, artwork_id, images)
                            EXCEPT !.items = {<<media_type, media_url>>}]
            /\ UNCHANGED <<artworks, histories, history_images>>
       ELSE IF /\ media_type = "youtube" /\ media_url # NoUrl
               /\ "extract_youtube_video_id" \notin history_service_names
       THEN \* NameError before the row is built: 500
            /\ resp' = [Reply("add_history", 500, "name_error", cred, artwork_id, images)
                            EXCEPT !.items = {<<media_type, media_url>>}]
            /\ UNCHANGED <<artworks, histories, history_images>>
       ELSE IF images /\ "ArtworkHistoryImage" \notin history_service_names
       THEN \* the history is committed, then NameError: 500, no recount
            /\ histories' = inserted
            /\ resp' = [Reply("add_history", 500, "name_error", cred, artwork_id, images)
                            EXCEPT !.items = {<<media_type, media_url>>}]
            /\ UNCHANGED <<artworks, history_images>>
       ELSE /\ histories' =
                  IF media_type = "youtube" /\ media_url # NoUrl
                  THEN (NewHistoryId :>
                           [history EXCEPT !.youtube_video_id =
                                extract_youtube_video_id(media_url)]) @@ histories
                  ELSE inserted
            /\ history_images' =
                  IF images
                  THEN (NewImageId :> [history_id |-> NewHistoryId]) @@ history_images
                  ELSE history_images
            /\ artworks' = [artworks EXCEPT ![artwork_id].history_count =
                                history_count_query(inserted, artwork_id)]
            /\ resp' = [Reply("add_history", 200, "created", cred, artwork_id, images)
                            EXCEPT !.items = {<<media_type, media_url>>}]
    /\ UNCHANGED <<users, tokens, nextToken, sessions, now, issued, verify_ok,
                   verified_by, posts, pending, s3, refresh_tokens, exhibitions, awards, uploaded_by>>

\* HistoryService.delete_history(db, history_id, user_id): no route calls it.
HistoryService_delete_history(user_id, history_id) ==
    LET artwork == histories[history_id].artwork_id
        left == [h \in DOMAIN histories \ {history_id} |-> histories[h]]
    IN
    /\ IF history_id \notin DOMAIN histories
       THEN /\ resp' = Reply("HistoryService.delete_history", 404, "not_found", user_id,
                             history_id, None)
            /\ UNCHANGED <<artworks, histories, history_images>>
       ELSE IF artwork \notin DOMAIN artworks
       THEN \* artwork.user_id on None raises AttributeError
            /\ resp' = Reply("HistoryService.delete_history", 500, "no_artwork", user_id,
                             history_id, None)
            /\ UNCHANGED <<artworks, histories, history_images>>
       ELSE IF artworks[artwork].user_id # user_id
       THEN /\ resp' = Reply("HistoryService.delete_history", 403, "forbidden", user_id,
                             history_id, None)
            /\ UNCHANGED <<artworks, histories, history_images>>
       ELSE /\ histories' = left
            /\ history_images' = cascade_images(left)
            /\ artworks' = [artworks EXCEPT ![artwork].history_count =
                                history_count_query(left, artwork)]
            /\ resp' = Reply("HistoryService.delete_history", 200, "deleted", user_id,
                             history_id, None)
    /\ UNCHANGED <<users, tokens, nextToken, sessions, now, issued, verify_ok,
                   verified_by, posts, pending, s3, refresh_tokens, exhibitions, awards, uploaded_by>>

\* DELETE /api/artworks/{artwork_id}/histories/{history_id} (it does not call
\* HistoryService.delete_history).  History rows carry no URL here, so the
\* delete_s3_file calls of its last branch have nothing to delete.
delete_history(cred, artwork_id, history_id) ==
    LET current_user == get_current_user(cred)
        found == history_id \in DOMAIN histories
                     /\ histories[history_id].artwork_id = artwork_id
        left == [h \in DOMAIN histories \ {history_id} |-> histories[h]]
    IN
    /\ IF ~found
       THEN /\ resp' = Reply("delete_history", 404, "not_found", cred, history_id, artwork_id)
            /\ UNCHANGED <<histories, history_images>>
       ELSE IF "Artwork" \notin history_router_names
       THEN \* db.query(Artwork) raises NameError outside the try block: 500
            /\ resp' = Reply("delete_history", 500, "name_error", cred, history_id, artwork_id)
            /\ UNCHANGED <<histories, history_images>>
       ELSE IF current_user = None
       THEN /\ resp' = Reply("delete_history", 500, "no_user", cred, history_id, artwork_id)
            /\ UNCHANGED <<histories, history_images>>
       ELSE IF artwork_id \notin DOMAIN artworks \/ artworks[artwork_id].user_id # current_user
       THEN /\ resp' = Reply("delete_history", 403, "forbidden", cred, history_id, artwork_id)
            /\ UNCHANGED <<histories, history_images>>
       ELSE /\ histories' = left
            /\ history_images' = cascade_images(left)
            /\ resp' = Reply("delete_history", 200, "deleted", cred, history_id, artwork_id)
    /\ UNCHANGED <<users, tokens, nextToken, sessions, now, issued, verify_ok,
                   verified_by, artworks, posts, pending, s3, refresh_tokens, exhibitions, awards, uploaded_by>>

\* ------------------------------- create_artwork / delete_artwork, interleaved
\* A request r runs in three steps, other requests running between them: the
\* commit of its row change, the count query of _update_user_artwork_count,
\* and the commit that stores the count.  `alone` records that no other request
\* was between its first and last step while r was.
InFlight == {q \in DOMAIN pending : pending[q].pc # "done"}

Begin(r, user_id, pc) ==
    [q \in DOMAIN pending \cup {r} |->
        IF q = r THEN [user_id |-> user_id, pc |-> pc, count |-> 0,
                       alone |-> InFlight = {} \/ pc = "done"]
        ELSE IF q \in InFlight /\ pc # "done" THEN [pending[q] EXCEPT !.alone = FALSE]
        ELSE pending[q]]

\* create_artwork up to its first commit.
create_artwork_commit(r, cred, privacy) ==
    LET current_user == get_current_user(cred)
        row == [created_at |-> now, user_id |-> current_user,
                privacy |-> privacy, status |-> "work_in_progress",
                completed_at |-> None, view_count |-> 0, like_count |-> 0,
                history_count |-> 0,
                display_order |-> Cardinality(UserArtworks(current_user))]
    IN
    /\ r \notin DOMAIN pending
    /\ NewArtworkId <= MaxArtworks
    /\ IF current_user = None
       THEN /\ pending' = Begin(r, None, "done")
            /\ resp' = Reply("create_artwork_commit", 500, "no_user", cred, r, privacy)
            /\ UNCHANGED artworks
       ELSE /\ pending' = Begin(r, current_user, "count")
            /\ artworks' = (NewArtworkId :> row) @@ artworks
            /\ resp' = Reply("create_artwork_commit", 0, "committed", cred, r, privacy)
    /\ UNCHANGED <<users, tokens, nextToken, sessions, now, issued, verify_ok,
                   verified_by, posts, histories, history_images, s3, refresh_tokens, exhibitions, awards, uploaded_by>>

\* delete_artwork up to its first commit.
delete_artwork_commit(r, cred, artwork_id) ==
    LET current_user == get_current_user(cred)
        found == artwork_id \in DOMAIN artworks
                     /\ artworks[artwork_id].user_id = current_user
        left_histories == cascade_histories(histories, {artwork_id})
    IN
    /\ r \notin DOMAIN pending
    /\ IF current_user = None
       THEN /\ pending' = Begin(r, None, "done")
            /\ resp' = Reply("delete_artwork_commit", 500, "no_user", cred, r, artwork_id)
            /\ UNCHANGED <<artworks, histories, history_images>>
       ELSE IF ~found
       THEN /\ pending' = Begin(r, current_user, "done")
            /\ resp' = Reply("delete_artwork_commit", 404, "not_found", cred, r, artwork_id)
            /\ UNCHANGED <<artworks, histories, history_images>>
       ELSE /\ pending' = Begin(r, current_user, "count")
            /\ artworks' = [a \in DOMAIN artworks \ {artwork_id} |-> artworks[a]]
            /\ histories' = left_histories
            /\ history_images' = cascade_images(left_histories)
            /\ resp' = Reply("delete_artwork_commit", 0, "committed", cred, r, artwork_id)
    /\ UNCHANGED <<users, tokens, nextToken, sessions, now, issued, verify_ok,
                   verified_by, posts, s3, refresh_tokens, exhibitions, awards, uploaded_by>>

\* _update_user_artwork_count: the count query.
update_user_artwork_count_query(r) ==
    /\ r \in DOMAIN pending
    /\ pending[r].pc = "count"
    /\ pending' = [pending EXCEPT
                      ![r].pc = "store",
                      ![r].count = artwork_count_query(artworks, pending[r].user_id)]
    /\ resp' = Reply("update_user_artwork_count_query", 0, "counted", None, r, None)
    /\ UNCHANGED <<users, tokens, nextToken, sessions, now, issued, verify_ok,
                   verified_by, artworks, posts, histories, history_images, s3,
                   refresh_tokens, exhibitions, awards, uploaded_by>>

\* _update_user_artwork_count: the user lookup, the assignment and the commit.
update_user_artwork_count_commit(r) ==
    /\ r \in DOMAIN pending
    /\ pending[r].pc = "store"
    /\ pending' = [pending EXCEPT ![r].pc = "done"]
    /\ users' = IF pending[r].user_id \in DOMAIN users
                THEN [users EXCEPT ![pending[r].user_id].total_artworks = pending[r].count]
                ELSE users
    /\ resp' = Reply("update_user_artwork_count_commit", 200, "stored", None, r, None)
    /\ UNCHANGED <<tokens, nextToken, sessions, now, issued, verify_ok, verified_by,
                   artworks, posts, histories, history_images, s3, refresh_tokens, exhibitions, awards, uploaded_by>>

\* --------------------------------------------------------- routers/blog
NewPostId == IF DOMAIN posts = {} THEN 1
             ELSE (CHOOSE m \in DOMAIN posts : \A p \in DOMAIN posts : p <= m) + 1

\* (mutant) the existence query finds nothing
existing_studio_Nothing(user_id, post_id) == {}

\* The STUDIO posts of user_id other than post_id (None: no post excluded).
existing_studio(user_id, post_id) ==
    {p \in DOMAIN posts : /\ posts[p].user_id = user_id
                          /\ posts[p].post_type = "STUDIO"
                          /\ p # post_id}

\* (mutant) a unique index over the STUDIO posts' user_id
PostsConstraintOK_UniqueStudio(tbl) ==
    \A p1, p2 \in DOMAIN tbl :
        /\ tbl[p1].post_type = "STUDIO" /\ tbl[p2].post_type = "STUDIO"
        /\ tbl[p1].user_id = tbl[p2].user_id
        => p1 = p2

\* The constraints of blog_posts a commit must satisfy: user_id NOT NULL, and
\* nothing over post_type.
PostsConstraintOK(tbl) == \A p \in DOMAIN tbl : tbl[p].user_id # None

\* content_images: the image URLs the regular expression of delete_blog_post
\* finds in the content column.
BlogPost(user_id, post_type, is_published, featured_image, content_images) ==
    [featured_image |-> featured_image, content_images |-> content_images,
     user_id |-> user_id, post_type |-> post_type, is_published |-> is_published]

\* POST /api/blog/posts, handled without interruption.
create_blog_post(cred, post_type, is_published, featured_image, content_images) ==
    LET current_user == get_current_user(cred)
        inserted == (NewPostId :> BlogPost(current_user, post_type, is_published,
                                           featured_image, content_images)) @@ posts
    IN
    /\ NewPostId <= MaxPosts
    /\ IF current_user = None
       THEN \* current_user.id raises AttributeError: 500
            /\ resp' = Reply("create_blog_post", 500, "no_user", cred, post_type, is_published)
            /\ UNCHANGED posts
       ELSE IF post_type = "STUDIO" /\ existing_studio(current_user, None) # {}
       THEN /\ resp' = Reply("create_blog_post", 400, "studio_exists", cred, post_type,
                             is_published)
            /\ UNCHANGED posts
       ELSE IF PostsConstraintOK(inserted)
       THEN /\ posts' = inserted
            /\ resp' = Reply("create_blog_post", 200, "created", cred, post_type, is_published)
       ELSE /\ resp' = Reply("create_blog_post", 500, "integrity_error", cred, post_type,
                             is_published)
            /\ UNCHANGED posts
    /\ UNCHANGED <<users, tokens, nextToken, sessions, now, issued, verify_ok,
                   verified_by, artworks, pending,
                   histories, history_images, s3, refresh_tokens, exhibitions, awards, uploaded_by>>

\* PUT /api/blog/posts/{post_id}.  post_type: "unset" when the key is absent, ""
\* the empty string.
update_blog_post(cred, post_id, post_type) ==
    LET current_user == get_current_user(cred)
        truthy == post_type \notin {"unset", ""}
        changed == IF post_type = "unset" THEN posts
                   ELSE [posts EXCEPT ![post_id].post_type = post_type]
    IN
    /\ IF post_id \notin DOMAIN posts
       THEN /\ resp' = Reply("update_blog_post", 404, "not_found", cred, post_id, post_type)
            /\ UNCHANGED posts
       ELSE IF current_user = None
       THEN \* current_user.id raises AttributeError: 500
            /\ resp' = Reply("update_blog_post", 500, "no_user", cred, post_id, post_type)
            /\ UNCHANGED posts
       ELSE IF posts[post_id].user_id # current_user
       THEN /\ resp' = Reply("update_blog_post", 403, "forbidden", cred, post_id, post_type)
            /\ UNCHANGED posts
       ELSE IF posts[post_id].post_type = "STUDIO" /\ truthy /\ post_type # "STUDIO"
       THEN /\ resp' = Reply("update_blog_post", 400, "studio_type_fixed", cred, post_id,
                             post_type)
            /\ UNCHANGED posts
       ELSE IF /\ posts[post_id].post_type # "STUDIO" /\ post_type = "STUDIO"
               /\ existing_studio(current_user, post_id) # {}
       THEN /\ resp' = Reply("update_blog_post", 400, "studio_exists", cred, post_id, post_type)
            /\ UNCHANGED posts
       ELSE /\ posts' = changed
            /\ resp' = Reply("update_blog_post", 200, "updated", cred, post_id, post_type)
    /\ UNCHANGED <<users, tokens, nextToken, sessions, now, issued, verify_ok,
                   verified_by, artworks, pending,
                   histories, history_images, s3, refresh_tokens, exhibitions, awards, uploaded_by>>

\* DELETE /api/blog/posts/{post_id}.  delete_s3_file is called for the featured
\* image and for the content images that carry the caller's slug; any of the
\* calls may fail, and so may the commit that follows them.
delete_blog_post(cred, post_id) ==
    LET current_user == get_current_user(cred)
        post == posts[post_id]
        targets == ({post.featured_image} \ {NoUrl})
                       \cup {o \in post.content_images : o[2] = users[current_user].slug}
    IN
    IF post_id \notin DOMAIN posts
    THEN /\ resp' = Reply("delete_blog_post", 404, "not_found", cred, post_id, None)
         /\ UNCHANGED <<users, tokens, nextToken, sessions, now, issued, verify_ok,
                        verified_by, artworks, posts, pending, histories, history_images,
                        s3, refresh_tokens, exhibitions, awards, uploaded_by>>
    ELSE IF current_user = None
    THEN \* current_user.id raises AttributeError: 500
         /\ resp' = Reply("delete_blog_post", 500, "no_user", cred, post_id, None)
         /\ UNCHANGED <<users, tokens, nextToken, sessions, now, issued, verify_ok,
                        verified_by, artworks, posts, pending, histories, history_images,
                        s3, refresh_tokens, exhibitions, awards, uploaded_by>>
    ELSE IF post.user_id # current_user
    THEN /\ resp' = Reply("delete_blog_post", 403, "forbidden", cred, post_id, None)
         /\ UNCHANGED <<users, tokens, nextToken, sessions, now, issued, verify_ok,
                        verified_by, artworks, posts, pending, histories, history_images,
                        s3, refresh_tokens, exhibitions, awards, uploaded_by>>
    ELSE IF post.post_type = "STUDIO"
    THEN /\ resp' = Reply("delete_blog_post", 400, "studio_permanent", cred, post_id, None)
         /\ UNCHANGED <<users, tokens, nextToken, sessions, now, issued, verify_ok,
                        verified_by, artworks, posts, pending, histories, history_images,
                        s3, refresh_tokens, exhibitions, awards, uploaded_by>>
    ELSE \E failed \in SUBSET targets, db_ok \in BOOLEAN :
         /\ s3' = s3_after_deletes(targets, failed)
         /\ IF db_ok
            THEN /\ posts' = [p \in DOMAIN posts \ {post_id} |-> posts[p]]
                 /\ resp' = [Reply("delete_blog_post", 200, "deleted", cred, post_id, None)
                                 EXCEPT !.items = failed]
            ELSE \* db.rollback(): 500
                 /\ resp' = [Reply("delete_blog_post", 500, "db_error", cred, post_id, None)
                                 EXCEPT !.items = failed]
                 /\ UNCHANGED posts
         /\ UNCHANGED <<users, tokens, nextToken, sessions, now, issued, verify_ok,
                        verified_by, artworks, pending, histories, history_images,
                        refresh_tokens, exhibitions, awards, uploaded_by>>

\* create_blog_post as two steps of request r, other requests running between
\* them.  First step: authentication and the STUDIO existence query.
create_blog_post_query(r, cred, post_type) ==
    LET current_user == get_current_user(cred) IN
    /\ r \notin DOMAIN pending
    /\ IF current_user = None
       THEN \* current_user.id raises AttributeError: 500
            /\ pending' = (r :> [user_id |-> None, pc |-> "done",
                                 post_type |-> post_type]) @@ pending
            /\ resp' = Reply("create_blog_post_query", 500, "no_user", cred, r, post_type)
       ELSE IF post_type = "STUDIO" /\ existing_studio(current_user, None) # {}
       THEN /\ pending' = (r :> [user_id |-> current_user, pc |-> "done",
                                 post_type |-> post_type]) @@ pending
            /\ resp' = Reply("create_blog_post_query", 400, "studio_exists", cred, r, post_type)
       ELSE /\ pending' = (r :> [user_id |-> current_user, pc |-> "insert",
                                 post_type |-> post_type]) @@ pending
            /\ resp' = Reply("create_blog_post_query", 0, "passed", cred, r, post_type)
    /\ UNCHANGED <<users, tokens, nextToken, sessions, now, issued, verify_ok,
                   verified_by, artworks, posts,
                   histories, history_images, s3, refresh_tokens, exhibitions, awards, uploaded_by>>

\* Second step: db.add and db.commit.
create_blog_post_commit(r) ==
    LET inserted == (NewPostId :> BlogPost(pending[r].user_id, pending[r].post_type,
                                           FALSE, NoUrl, {})) @@ posts
    IN
    /\ r \in DOMAIN pending
    /\ pending[r].pc = "insert"
    /\ NewPostId <= MaxPosts
    /\ pending' = [pending EXCEPT ![r].pc = "done"]
    /\ IF PostsConstraintOK(inserted)
       THEN /\ posts' = inserted
            /\ resp' = Reply("create_blog_post_commit", 200, "created", None, r,
                             pending[r].post_type)
       ELSE /\ resp' = Reply("create_blog_post_commit", 500, "integrity_error", None, r,
                             pending[r].post_type)
            /\ UNCHANGED posts
    /\ UNCHANGED <<users, tokens, nextToken, sessions, now, issued, verify_ok,
                   verified_by, artworks,
                   histories, history_images, s3, refresh_tokens, exhibitions, awards, uploaded_by>>

\* One minute passes; the access JWTs in circulation stay valid.
Advance ==
    /\ now + 1 <= MaxMinutes
    /\ now + 1 < ACCESS_TOKEN_EXPIRE_MINUTES
    /\ now' = now + 1
    /\ resp' = Reply("advance", 0, "advance", None, None, None)
    /\ UNCHANGED <<users, tokens, nextToken, sessions, issued, verify_ok, verified_by,
                   artworks, posts, pending,
                   histories, history_images, s3, refresh_tokens, exhibitions, awards, uploaded_by>>

\* ------------------------------------------------------- refresh tokens
\* A row of refresh_tokens, as RefreshToken(token, user_id, expires_at) makes
\* it: is_revoked starts false.  The table maps the row id to the row, and the
\* value of secrets.token_urlsafe(64) is the row id (no two calls return the
\* same value).
RefreshToken(token, user_id, expires_at) ==
    [token |-> token, user_id |-> user_id, expires_at |-> expires_at, is_revoked |-> FALSE]

\* (mutant) no earlier token is revoked
revoke_refresh_tokens_None(tbl, user_id) == tbl

\* The update of create_refresh_token: is_revoked = True on the unrevoked rows
\* of user_id.
revoke_refresh_tokens(tbl, user_id) ==
    [t \in DOMAIN tbl |->
        IF tbl[t].user_id = user_id /\ tbl[t].is_revoked = FALSE
        THEN [tbl[t] EXCEPT !.is_revoked = TRUE]
        ELSE tbl[t]]

\* AuthService.create_refresh_token
create_refresh_token(user_id) ==
    LET token == Len(refresh_tokens) + 1
        expires_at == now + REFRESH_TOKEN_EXPIRE_DAYS * 24 * 60
    IN
    /\ token <= MaxRefresh
    /\ refresh_tokens' = Append(revoke_refresh_tokens(refresh_tokens, user_id),
                                RefreshToken(token, user_id, expires_at))
    /\ resp' = Reply("create_refresh_token", 0, "returned", user_id, token, None)
    /\ UNCHANGED <<users, tokens, nextToken, sessions, now, issued, verify_ok,
                   verified_by, artworks, posts, pending, histories, history_images, s3,
                   exhibitions, awards, uploaded_by>>

\* AuthService.verify_refresh_token: `who` of the reply is the user returned.
verify_refresh_token(token) ==
    LET rows == {t \in DOMAIN refresh_tokens :
                    /\ refresh_tokens[t].token = token
                    /\ refresh_tokens[t].is_revoked = FALSE
                    /\ refresh_tokens[t].expires_at > now}
        user == IF rows = {} THEN None
                ELSE LET row == refresh_tokens[CHOOSE t \in rows : TRUE]
                     IN IF row.user_id \in DOMAIN users THEN row.user_id ELSE None
    IN
    /\ resp' = Reply("verify_refresh_token", 0, "returned", user, token, None)
    /\ UNCHANGED <<users, tokens, nextToken, sessions, now, issued, verify_ok,
                   verified_by, artworks, posts, pending, histories, history_images, s3,
                   refresh_tokens, exhibitions, awards, uploaded_by>>

\* REFRESH_TOKEN_EXPIRE_DAYS pass: every access JWT has expired.
Week ==
    /\ now < REFRESH_TOKEN_EXPIRE_DAYS * 24 * 60
    /\ now' = now + REFRESH_TOKEN_EXPIRE_DAYS * 24 * 60
    /\ sessions' = {}
    /\ resp' = Reply("week", 0, "week", None, None, None)
    /\ UNCHANGED <<users, tokens, nextToken, issued, verify_ok, verified_by,
                   artworks, posts, pending, histories, history_images, s3,
                   refresh_tokens, exhibitions, awards, uploaded_by>>

\* ------------------------------------------------- delete_uploaded_file
\* The text of a slug: 1 and 2 are the slugs the accounts start with, 3 is a
\* slug that is free and that a user may take with update_basic_info.
SlugStr(slug) ==
    CASE slug = 1 -> <<"p", "a", "r", "k">>
      [] slug = 2 -> <<"k", "i", "m">>
      [] slug = 3 -> <<"b", "l", "o", "g">>
      [] OTHER -> <<>>

FolderStr(folder) == IF folder = "blog" THEN <<"b", "l", "o", "g">> ELSE <<>>

\* f"https://{S3_BUCKET}.s3.{AWS_REGION}.amazonaws.com/", with the default
\* bucket and region.
S3Host ==
    <<"h", "t", "t", "p", "s", ":", "/", "/", "a", "r", "t", "i", "v", "e", "-", "u", "p", "l", "o", "a", "d", "s", ".", "s", "3", ".", "a", "p", "-", "s", "o", "u", "t", "h", "e", "a", "s", "t", "-", "2", ".", "a", "m", "a", "z", "o", "n", "a", "w", "s", ".", "c", "o", "m", "/">>

\* The URL of object <<folder, slug, n>>:
\* f"https://.../{folder}/{user_slug}/{timestamp}_{unique_id}{file_extension}"
UrlStr(o) ==
    S3Host \o FolderStr(o[1]) \o <<"/">> \o SlugStr(o[2]) \o <<"/">>
           \o Decimal(o[3]) \o <<"_", "a", "b", "1", "2", "c", "d", "3", "4", ".", "j", "p", "g">>

\* Python's `sub in text` on str
str_in(sub, text) ==
    \E i \in 0..(Len(text) - Len(sub)) : SubSeq(text, i + 1, i + Len(sub)) = sub

\* DELETE /api/delete-file.  delete_s3_file returns False when the storage call
\* fails, True when it succeeds or the object does not exist.
delete_uploaded_file(cred, file_url) ==
    LET current_user == get_current_user(cred) IN
    /\ IF current_user = None
       THEN \* get_current_user_required
            /\ resp' = Reply("delete_uploaded_file", 401, "invalid_token", cred, file_url, None)
            /\ UNCHANGED s3
       ELSE IF file_url = NoUrl
                  \/ ~str_in(SlugStr(users[current_user].slug), UrlStr(file_url))
       THEN /\ resp' = Reply("delete_uploaded_file", 403, "forbidden", cred, file_url, None)
            /\ UNCHANGED s3
       ELSE \E success \in BOOLEAN :
            IF success
            THEN /\ s3' = s3 \ {file_url}
                 /\ resp' = Reply("delete_uploaded_file", 200, "deleted", cred, file_url, None)
            ELSE /\ resp' = Reply("delete_uploaded_file", 500, "delete_failed", cred,
                                  file_url, None)
                 /\ UNCHANGED s3
    /\ UNCHANGED <<users, tokens, nextToken, sessions, now, issued, verify_ok,
                   verified_by, artworks, posts, pending, histories, history_images,
                   refresh_tokens, exhibitions, awards, uploaded_by>>

\* ------------------------------------------- exhibitions and awards
\* The attributes an Exhibition / an Award instance has: its columns and its
\* relationship.  Reading any other attribute raises AttributeError.
Exhibition_columns ==
    {"id", "user_id", "title_ko", "title_en", "venue_ko", "venue_en", "year",
     "exhibition_type", "description_ko", "description_en", "is_featured",
     "is_active", "order_index", "created_at", "updated_at", "user"}

Award_columns ==
    {"id", "user_id", "title_ko", "title_en", "organization_ko", "organization_en",
     "year", "award_type", "description_ko", "description_en", "is_featured",
     "is_active", "order_index", "created_at", "updated_at", "user"}

\* A row as add_exhibition / add_award makes it (is_active TRUE).
ProfileRow(user_id, title_ko, order_index) ==
    [is_active |-> TRUE, user_id |-> user_id, order_index |-> order_index,
     title_ko |-> title_ko]

NewRowId(tbl) == IF DOMAIN tbl = {} THEN 1
                 ELSE (CHOOSE m \in DOMAIN tbl : \A r \in DOMAIN tbl : r <= m) + 1

\* db.query(X).filter(X.user_id == current_user.id).count()
profile_row_count(tbl, user_id) == Cardinality({r \in DOMAIN tbl : tbl[r].user_id = user_id})

\* db.query(X).filter(X.id == id, X.user_id == current_user.id).first()
profile_row_query(tbl, id, user_id) == id \in DOMAIN tbl /\ tbl[id].user_id = user_id

\* db.query(X).filter(X.user_id == current_user.id, X.is_active == True).all()
active_rows_query(tbl, user_id) ==
    {r \in DOMAIN tbl : tbl[r].user_id = user_id /\ tbl[r].is_active}

\* A `data: dict` request body: the keys it has and their values.
Body(keys, user_id, is_active, title_ko) ==
    [is_active |-> is_active, user_id |-> user_id, title_ko |-> title_ko, keys |-> keys]

\* for field, value in data.items(): if hasattr(row, field): setattr(row, field, value)
assign_fields(row, columns, data) ==
    LET set == data.keys \cap columns IN
    [row EXCEPT !.user_id = IF "user_id" \in set THEN data.user_id ELSE @,
                !.is_active = IF "is_active" \in set THEN data.is_active ELSE @,
                !.title_ko = IF "title_ko" \in set THEN data.title_ko ELSE @]

\* The response of a handler of exhibitions or awards and the table after it.
\* current_user.id of an anonymous caller raises AttributeError outside any try.
add_profile_row(op, tbl, cred, title_ko) ==
    LET current_user == get_current_user(cred)
        max_order == profile_row_count(tbl, current_user)
    IN
    IF current_user = None
    THEN [tbl |-> tbl, reply |-> Reply(op, 500, "no_user", cred, None, title_ko)]
    ELSE [tbl |-> (NewRowId(tbl) :> ProfileRow(current_user, title_ko, max_order)) @@ tbl,
          reply |-> Reply(op, 200, "added", cred, NewRowId(tbl), title_ko)]

\* update_exhibition / update_award.  The test of a body that has "image_url"
\* (or "video_url") reads row.image_url (row.video_url) inside the try.
update_profile_row(op, tbl, columns, cred, id, data) ==
    LET current_user == get_current_user(cred) IN
    IF current_user = None
    THEN [tbl |-> tbl, reply |-> Reply(op, 500, "no_user", cred, id, data)]
    ELSE IF ~profile_row_query(tbl, id, current_user)
    THEN [tbl |-> tbl, reply |-> Reply(op, 404, "not_found", cred, id, data)]
    ELSE IF (data.keys \cap {"image_url", "video_url"}) \ columns # {}
    THEN \* AttributeError: rollback
         [tbl |-> tbl, reply |-> Reply(op, 500, "error", cred, id, data)]
    ELSE [tbl |-> [tbl EXCEPT ![id] = assign_fields(@, columns, data)],
          reply |-> Reply(op, 200, "updated", cred, id, data)]

\* delete_exhibition / delete_award.  `if row.image_url:` is the first statement
\* of the try.
delete_profile_row(op, tbl, columns, cred, id) ==
    LET current_user == get_current_user(cred) IN
    IF current_user = None
    THEN [tbl |-> tbl, reply |-> Reply(op, 500, "no_user", cred, id, None)]
    ELSE IF ~profile_row_query(tbl, id, current_user)
    THEN [tbl |-> tbl, reply |-> Reply(op, 404, "not_found", cred, id, None)]
    ELSE IF "image_url" \notin columns \/ "video_url" \notin columns
    THEN \* AttributeError: rollback
         [tbl |-> tbl, reply |-> Reply(op, 500, "error", cred, id, None)]
    ELSE [tbl |-> [tbl EXCEPT ![id].is_active = FALSE],
          reply |-> Reply(op, 200, "deleted", cred, id, None)]

\* get_exhibitions / get_awards
list_profile_rows(op, tbl, cred) ==
    LET current_user == get_current_user(cred) IN
    IF current_user = None
    THEN Reply(op, 500, "no_user", cred, None, None)
    ELSE [Reply(op, 200, "listed", cred, current_user, None)
              EXCEPT !.items = active_rows_query(tbl, current_user)]

UnchangedButExhibitions ==
    UNCHANGED <<users, tokens, nextToken, sessions, now, issued, verify_ok, verified_by,
                artworks, posts, pending, histories, history_images, s3,
                refresh_tokens, awards, uploaded_by>>

UnchangedButAwards ==
    UNCHANGED <<users, tokens, nextToken, sessions, now, issued, verify_ok, verified_by,
                artworks, posts, pending, histories, history_images, s3,
                refresh_tokens, exhibitions, uploaded_by>>

\* POST /api/profile/exhibitions
add_exhibition(cred, title_ko) ==
    LET out == add_profile_row("add_exhibition", exhibitions, cred, title_ko) IN
    /\ NewRowId(exhibitions) <= MaxRows
    /\ resp' = out.reply
    /\ exhibitions' = out.tbl
    /\ UnchangedButExhibitions

\* PUT /api/profile/exhibitions/{exhibition_id}
update_exhibition(cred, exhibition_id, data) ==
    LET out == update_profile_row("update_exhibition", exhibitions, Exhibition_columns,
                                  cred, exhibition_id, data) IN
    /\ resp' = out.reply
    /\ exhibitions' = out.tbl
    /\ UnchangedButExhibitions

\* DELETE /api/profile/exhibitions/{exhibition_id}
delete_exhibition(cred, exhibition_id) ==
    LET out == delete_profile_row("delete_exhibition", exhibitions, Exhibition_columns,
                                  cred, exhibition_id) IN
    /\ resp' = out.reply
    /\ exhibitions' = out.tbl
    /\ UnchangedButExhibitions

\* GET /api/profile/exhibitions
get_exhibitions(cred) ==
    /\ resp' = list_profile_rows("get_exhibitions", exhibitions, cred)
    /\ UNCHANGED exhibitions
    /\ UnchangedButExhibitions

\* POST /api/profile/awards
add_award(cred, title_ko) ==
    LET out == add_profile_row("add_award", awards, cred, title_ko) IN
    /\ NewRowId(awards) <= MaxRows
    /\ resp' = out.reply
    /\ awards' = out.tbl
    /\ UnchangedButAwards

\* PUT /api/profile/awards/{award_id}
update_award(cred, award_id, data) ==
    LET out == update_profile_row("update_award", awards, Award_columns,
                                  cred, award_id, data) IN
    /\ resp' = out.reply
    /\ awards' = out.tbl
    /\ UnchangedButAwards

\* DELETE /api/profile/awards/{award_id}
delete_award(cred, award_id) ==
    LET out == delete_profile_row("delete_award", awards, Award_columns, cred, award_id) IN
    /\ resp' = out.reply
    /\ awards' = out.tbl
    /\ UnchangedButAwards

\* GET /api/profile/awards
get_awards(cred) ==
    /\ resp' = list_profile_rows("get_awards", awards, cred)
    /\ UNCHANGED awards
    /\ UnchangedButAwards

\* ProfileResponse declares `basic: dict`; get_profile passes it the User
\* instance, which is not a mapping: the constructor raises ValidationError.
ProfileResponse_basic == "dict"

\* GET /api/profile: the exhibitions and awards of the response.
get_profile(cred) ==
    LET current_user == get_current_user(cred) IN
    /\ resp' = IF current_user = None
               THEN Reply("get_profile", 500, "no_user", cred, None, None)
               ELSE IF ProfileResponse_basic # "User"
               THEN Reply("get_profile", 500, "validation", cred, current_user, None)
               ELSE [Reply("get_profile", 200, "profile", cred, current_user, None)
                        EXCEPT !.items =
                            {<<"exhibition", r>> : r \in active_rows_query(exhibitions, current_user)}
                            \cup {<<"award", r>> : r \in active_rows_query(awards, current_user)}]
    /\ UNCHANGED <<exhibitions, awards, uploaded_by>>
    /\ UnchangedButExhibitions

\* ------------------------------------------------ the account subsystem
\* The users table is persistent.  This revision's create_user cannot insert a
\* row (see create_user_outcome), so the accounts the service works on are rows
\* loaded directly (as create_test_data.py does) or by an earlier deployment:
\* user k with email k, slug k and the seeded password, verified or not,
\* active or not, created at time 0.
SeedUser(k, verified, active) ==
    [password |-> hash_password(SeedPassword), email |-> k, slug |-> k,
     is_verified |-> verified, is_active |-> active, created_at |-> 0,
     last_login |-> None, total_artworks |-> 0, is_public_gallery |-> TRUE]

InitSeed(actives) ==
    /\ \E v \in [UserIds -> BOOLEAN], a \in [UserIds -> actives] :
          /\ users = [k \in UserIds |-> SeedUser(k, v[k], a[k])]
          /\ verified_by = [k \in UserIds |-> IF v[k] THEN "seed" ELSE "no"]
    /\ tokens = {}
    /\ nextToken = 1
    /\ sessions = {}
    /\ now = 0
    /\ resp = Reply("init", 0, "init", None, None, None)
    /\ issued = <<>>
    /\ verify_ok = <<>>
    /\ artworks = <<>>
    /\ posts = <<>>
    /\ pending = <<>>
    /\ histories = <<>>
    /\ history_images = <<>>
    /\ s3 = {}
    /\ refresh_tokens = <<>>
    /\ exhibitions = <<>>
    /\ awards = <<>>
    /\ uploaded_by = <<>>

\* Registration, login, slug change, account deletion and the cleanup job.
InitAccounts == InitSeed({TRUE})

NextAccounts ==
    \/ \E e \in Emails, s \in Slugs : register(e, SeedPassword, s)
    \/ \E e \in Emails, p \in Passwords \ {0} : login(e, p)
    \/ \E c \in Emails \cup {None}, s \in Slugs \cup {None, Null} : update_basic_info(c, s)
    \/ \E c \in Emails \cup {None}, p \in Passwords : delete_account(c, p)
    \/ cleanup_unverified_users
    \/ Tick

SpecAccounts == InitAccounts /\ [][NextAccounts]_vars

\* Email verification: token issue and use, login, the cleanup job.
InitVerify == InitSeed(BOOLEAN)

NextVerify ==
    \/ \E e \in Emails, s \in Slugs : register(e, SeedPassword, s)
    \/ \E e \in Emails, p \in Passwords \ {0} : login(e, p)
    \/ \E t \in TokenIds : verify_email(t)
    \/ \E e \in Emails : resend_verification(e)
    \/ cleanup_unverified_users
    \/ Tick

SpecVerify == InitVerify /\ [][NextVerify]_vars

\* ------------------------------------------- the gallery and blog subsystems
\* Both accounts verified, active and holding an access JWT issued at time 0.
InitLoggedIn ==
    /\ users = [k \in UserIds |-> [SeedUser(k, TRUE, TRUE) EXCEPT !.last_login = 0]]
    /\ verified_by = [k \in UserIds |-> "seed"]
    /\ sessions = {users[k].email : k \in UserIds}
    /\ tokens = {}
    /\ nextToken = 1
    /\ now = 0
    /\ resp = Reply("init", 0, "init", None, None, None)
    /\ issued = <<>>
    /\ verify_ok = <<>>
    /\ artworks = <<>>
    /\ posts = <<>>
    /\ pending = <<>>
    /\ histories = <<>>
    /\ history_images = <<>>
    /\ s3 = {}
    /\ refresh_tokens = <<>>
    /\ exhibitions = <<>>
    /\ awards = <<>>
    /\ uploaded_by = <<>>

\* The bearer credential of a request: the email of an account, or None.
Callers == {1, 2, None}
ArtworkIds == 1..MaxArtworks
PostIds == 1..MaxPosts
RequestIds == 1..MaxRequests

ArtworkUpdate(status, privacy, completed_at) ==
    [privacy |-> privacy, status |-> status, completed_at |-> completed_at]

\* The filters the list routes are called with: no filter, or private only.
RouteFilters ==
    {ArtworkFilter("unset", p, "created_at", "desc", 1, MaxArtworks) :
        p \in {"unset", "private"}}

\* Reading one artwork: create, change privacy, read.
NextGallery ==
    \/ \E c \in Callers, p \in ArtworkPrivacy : create_artwork(c, p)
    \/ \E c \in Callers, a \in ArtworkIds, p \in ArtworkPrivacy :
          update_artwork(c, a, ArtworkUpdate("unset", p, None))
    \/ \E c \in Callers, a \in ArtworkIds : get_artwork(c, a)

SpecGallery == InitLoggedIn /\ [][NextGallery]_vars

\* Listing a gallery: create, change privacy or complete, list.
NextGalleryList ==
    \/ \E c \in Callers, p \in ArtworkPrivacy : create_artwork(c, p)
    \/ \E c \in Callers, a \in ArtworkIds, p \in ArtworkPrivacy :
          update_artwork(c, a, ArtworkUpdate("unset", p, None))
    \/ \E c \in Callers, a \in ArtworkIds :
          update_artwork(c, a, ArtworkUpdate("completed", "unset", None))
    \/ \E c \in Callers, f \in RouteFilters : get_my_artworks(c, f)
    \/ \E s \in Slugs, f \in RouteFilters : get_user_gallery_artworks(s, f)

SpecGalleryList == InitLoggedIn /\ [][NextGalleryList]_vars

\* A completion date a client supplies in the body: some time before time 0.
SuppliedDate == 0 - 3

StatusUpdates ==
    {ArtworkUpdate(s, "unset", d) :
        s \in {"unset"} \cup ArtworkStatus, d \in {None, Null, SuppliedDate}}

\* The status of one artwork: create it, update status and completed_at, while
\* time passes.
NextArtworkStatus ==
    \/ DOMAIN artworks = {} /\ \E c \in Callers : create_artwork(c, "public")
    \/ \E c \in Callers, a \in ArtworkIds, d \in StatusUpdates : update_artwork(c, a, d)
    \/ Advance

SpecArtworkStatus == InitLoggedIn /\ [][NextArtworkStatus]_vars

\* Blog posts, one request at a time.
NextBlog ==
    \/ \E c \in Callers, t \in {"BLOG", "STUDIO"}, b \in BOOLEAN :
          create_blog_post(c, t, b, NoUrl, {})
    \/ \E c \in Callers, p \in PostIds, t \in {"unset", "", "BLOG", "STUDIO"} :
          update_blog_post(c, p, t)
    \/ \E c \in Callers, p \in PostIds : delete_blog_post(c, p)

SpecBlog == InitLoggedIn /\ [][NextBlog]_vars

\* Blog post creation by requests that interleave.
NextBlogRace ==
    \/ \E r \in RequestIds, c \in Callers, t \in {"BLOG", "STUDIO"} :
          create_blog_post_query(r, c, t)
    \/ \E r \in RequestIds : create_blog_post_commit(r)

SpecBlogRace == InitLoggedIn /\ [][NextBlogRace]_vars

\* Artworks and their histories.  Rows of artwork_history_images can only have
\* been loaded directly (create_history cannot insert one in this revision, see
\* add_history): the database starts empty, or with artwork 1 of user 1 holding
\* history 1 with image 1.
InitHistory ==
    /\ sessions = {1, 2}
    /\ verified_by = [k \in UserIds |-> "seed"]
    /\ tokens = {}
    /\ nextToken = 1
    /\ now = 0
    /\ resp = Reply("init", 0, "init", None, None, None)
    /\ issued = <<>>
    /\ verify_ok = <<>>
    /\ posts = <<>>
    /\ pending = <<>>
    /\ s3 = {}
    /\ refresh_tokens = <<>>
    /\ exhibitions = <<>>
    /\ awards = <<>>
    /\ uploaded_by = <<>>
    /\ \E loaded \in BOOLEAN :
          /\ users = [k \in UserIds |->
                        [SeedUser(k, TRUE, TRUE) EXCEPT
                            !.last_login = 0,
                            !.total_artworks = IF loaded /\ k = 1 THEN 1 ELSE 0]]
          /\ artworks = IF loaded
                        THEN <<[created_at |-> 0, user_id |-> 1,
                                privacy |-> "public", status |-> "work_in_progress",
                                completed_at |-> None, view_count |-> 0, like_count |-> 0,
                                history_count |-> 1, display_order |-> 0]>>
                        ELSE <<>>
          /\ histories = IF loaded
                         THEN <<[artwork_id |-> 1, order_index |-> 0,
                                 youtube_video_id |-> NoId]>>
                         ELSE <<>>
          /\ history_images = IF loaded THEN <<[history_id |-> 1]>> ELSE <<>>

HistoryIds == 1..MaxHistories

\* An 11-character video id, and the media URLs a body carries: none, the
\* three YouTube forms, a URL of another site, a YouTube URL with a short id.
VideoId == <<"d", "Q", "w", "4", "w", "9", "W", "g", "X", "c", "Q">>

MediaUrls ==
    {NoUrl,
     <<"youtube.com", "watch?v=", VideoId>>,
     <<"youtu.be", "", VideoId>>,
     <<"youtube.com", "embed/", VideoId>>,
     <<"vimeo.com", "", VideoId>>,
     <<"youtu.be", "", <<"d", "Q", "w">>>>}

\* Two artworks at a time are enough for "the histories of another artwork".
NextHistory ==
    \/ Cardinality(DOMAIN artworks) < 2 /\ \E c \in Callers : create_artwork(c, "public")
    \/ \E c \in Callers, a \in ArtworkIds : delete_artwork(c, a)
    \/ \E c \in Callers, a \in ArtworkIds, i \in BOOLEAN,
             m \in {<<"image", NoUrl>>, <<"youtube", <<"youtu.be", "", VideoId>>>>} :
          add_history(c, a, m[1], m[2], i)
    \/ \E u \in UserIds, h \in HistoryIds : HistoryService_delete_history(u, h)
    \/ \E c \in Callers, a \in ArtworkIds, h \in HistoryIds : delete_history(c, a, h)
    \/ \E c \in Callers : delete_account(c, SeedPassword)

SpecHistory == InitHistory /\ [][NextHistory]_vars

\* Artwork creation and deletion by requests that interleave.
NextArtworkRace ==
    \/ \E r \in RequestIds, c \in Callers : create_artwork_commit(r, c, "public")
    \/ \E r \in RequestIds, c \in Callers, a \in ArtworkIds : delete_artwork_commit(r, c, a)
    \/ \E r \in RequestIds : update_user_artwork_count_query(r)
    \/ \E r \in RequestIds : update_user_artwork_count_commit(r)

SpecArtworkRace == InitLoggedIn /\ [][NextArtworkRace]_vars

\* Statistics of the artworks of user 1, while they are viewed, liked and
\* given a status.
NextStats ==
    \/ Cardinality(DOMAIN artworks) < 2 /\ \E c \in {1, None} : create_artwork(c, "public")
    \/ \E a \in ArtworkIds, t \in ArtworkStatus :
          update_artwork(1, a, ArtworkUpdate(t, "unset", None))
    \/ \E a \in ArtworkIds : get_artwork(2, a)
    \/ \E c \in {2, None}, a \in ArtworkIds : toggle_artwork_like(c, a)
    \/ \E c \in Callers : get_my_artwork_stats(c)

SpecStats == InitLoggedIn /\ [][NextStats]_vars

\* Slugs users have, as text, and the texts generate_unique_slug is called with.
SlugTexts ==
    {<<"p">>, <<"p", "-", "1">>, <<"p", "-", "2">>, <<"P">>, <<"p", "-">>,
     <<"-">>, <<"-", "-", "1">>, <<"p", "-", "p">>}

BaseTexts == {<<"P">>, <<"p">>, <<" ">>, <<"p", " ">>, <<"P", " ", "P">>, <<"p", "-", "1">>}

InitSlug ==
    /\ \E ids \in SUBSET UserIds : \E text \in [ids -> SlugTexts] :
          /\ \A u, v \in ids : u # v => text[u] # text[v]
          /\ users = [k \in ids |-> [SeedUser(k, TRUE, TRUE) EXCEPT !.slug = text[k]]]
          /\ verified_by = [k \in ids |-> "seed"]
    /\ sessions = {}
    /\ tokens = {}
    /\ nextToken = 1
    /\ now = 0
    /\ resp = Reply("init", 0, "init", None, None, None)
    /\ issued = <<>>
    /\ verify_ok = <<>>
    /\ artworks = <<>>
    /\ posts = <<>>
    /\ pending = <<>>
    /\ histories = <<>>
    /\ history_images = <<>>
    /\ s3 = {}
    /\ refresh_tokens = <<>>
    /\ exhibitions = <<>>
    /\ awards = <<>>
    /\ uploaded_by = <<>>

NextSlug == \E base_slug \in BaseTexts : generate_unique_slug(base_slug)

SpecSlug == InitSlug /\ [][NextSlug]_vars

\* The cleanup job running every hour: tokens are issued and used, time passes.
NextCleanup ==
    \/ \E t \in TokenIds : verify_email(t)
    \/ \E e \in Emails : resend_verification(e)
    \/ cleanup_unverified_users
    \/ Tick

SpecCleanup ==
    InitVerify /\ [][NextCleanup]_vars /\ WF_vars(cleanup_unverified_users)

\* Images and the posts that refer to them: upload, create a post with the
\* URLs of uploaded objects, delete the post or the account.  Two stored
\* objects and two posts of user 1 at a time are enough for a post left without
\* its image next to an object left without its post.
NextStorage ==
    \/ Cardinality(s3) < 2 /\ \E c \in {1, None} : upload_blog_image(c)
    \/ /\ Cardinality(DOMAIN posts) < 2
       /\ \E c \in {1, None}, f \in s3 \cup {NoUrl}, i \in {{}} \cup {{o} : o \in s3} :
             create_blog_post(c, "BLOG", TRUE, f, i)
    \/ \E c \in Callers, p \in PostIds : delete_blog_post(c, p)
    \/ \E c \in Callers : delete_account(c, SeedPassword)

SpecStorage == InitLoggedIn /\ [][NextStorage]_vars

\* Refresh tokens: issue, verify, a minute or a week passing.
NextRefresh ==
    \/ \E u \in UserIds : create_refresh_token(u)
    \/ \E t \in 1..(MaxRefresh + 1) : verify_refresh_token(t)
    \/ Advance
    \/ Week

SpecRefresh == InitLoggedIn /\ [][NextRefresh]_vars

\* Histories with media: artworks are created and histories added to them.
NextMedia ==
    \/ Cardinality(DOMAIN artworks) < 2 /\ \E c \in {1, None} : create_artwork(c, "public")
    \/ \E c \in Callers, a \in ArtworkIds, m \in {"image", "youtube"}, u \in MediaUrls,
             i \in BOOLEAN :
          add_history(c, a, m, u, i)

SpecMedia == InitLoggedIn /\ [][NextMedia]_vars

\* Artworks that are viewed and liked, by their owner and by others.
NextLikes ==
    \/ \E c \in {1, None} : create_artwork(c, "public")
    \/ \E c \in Callers, a \in ArtworkIds : get_artwork(c, a)
    \/ \E c \in Callers, a \in ArtworkIds : toggle_artwork_like(c, a)

SpecLikes == InitLoggedIn /\ [][NextLikes]_vars

\* The request bodies update_exhibition and update_award are called with.
RowIds == 1..MaxRows
Bodies ==
    {Body({"title_ko", "image_url"}, 1, TRUE, "New")}
    \cup {Body({"user_id"}, u, TRUE, "New") : u \in UserIds}
    \cup {Body({"is_active"}, 1, a, "New") : a \in BOOLEAN}

\* Exhibitions and awards: add, update, delete, list.
NextProfile ==
    \/ Cardinality(DOMAIN exhibitions) < 2 /\ \E c \in Callers : add_exhibition(c, "Old")
    \/ \E c \in Callers, r \in RowIds, d \in Bodies : update_exhibition(c, r, d)
    \/ \E c \in Callers, r \in RowIds : delete_exhibition(c, r)
    \/ \E c \in Callers : get_exhibitions(c)
    \/ Cardinality(DOMAIN awards) < 1 /\ \E c \in {1, None} : add_award(c, "Old")
    \/ \E c \in {1, None}, r \in RowIds, d \in Bodies : update_award(c, r, d)
    \/ \E c \in {1, 2}, r \in RowIds : delete_award(c, r)
    \/ \E c \in {1, 2} : get_awards(c)
    \/ \E c \in Callers : get_profile(c)

SpecProfile == InitLoggedIn /\ [][NextProfile]_vars

\* Uploaded files: upload, change of slug, deletion of one file.
NextFiles ==
    \/ Cardinality(s3) < 2 /\ \E c \in {1, 2} : upload_blog_image(c)
    \/ \E c \in {1, 2}, g \in Slugs : update_basic_info(c, g)
    \/ \E c \in Callers, f \in s3 \cup {NoUrl} : delete_uploaded_file(c, f)

SpecFiles == InitLoggedIn /\ [][NextFiles]_vars

\* What callers who are not the owner are told of the artworks of user 1, some
\* of them private, with histories and views.
NextPrivacy ==
    \/ \E c \in {1, None}, p \in {"public", "private"} : create_artwork(c, p)
    \/ \E a \in ArtworkIds : get_artwork(2, a)
    \/ \E a \in ArtworkIds : add_history(1, a, "image", NoUrl, FALSE)
    \/ \E g \in {1, 3} : get_user_gallery_stats(g)
    \/ \E g \in {1, 3}, f \in RouteFilters : get_user_gallery_artworks(g, f)
    \/ \E a \in ArtworkIds : get_histories(a)

SpecPrivacy == InitLoggedIn /\ [][NextPrivacy]_vars

\* Who a stored object belongs to: upload, change of slug, account deletion,
\* the hourly job.
NextOwnership ==
    \/ Cardinality(s3) < 2 /\ \E c \in {1, 2} : upload_blog_image(c)
    \/ \E c \in {1, 2}, g \in {1, 2, 3} : update_basic_info(c, g)
    \/ \E c \in Callers : delete_account(c, SeedPassword)
    \/ cleanup_unverified_users

SpecOwnership == InitLoggedIn /\ [][NextOwnership]_vars

\* The rows of an account and its deletion, by delete_account or by the hourly
\* job: accounts verified or not log in, create rows, ask for tokens, leave.
NextDeletion ==
    \/ \E e \in UserIds : login(e, SeedPassword)
    \/ DOMAIN artworks = {} /\ \E c \in {1, None} : create_artwork(c, "public")
    \/ DOMAIN histories = {} /\ \E a \in ArtworkIds :
          add_history(1, a, "image", NoUrl, FALSE)
    \/ DOMAIN posts = {} /\ create_blog_post(1, "BLOG", TRUE, NoUrl, {})
    \/ DOMAIN exhibitions = {} /\ add_exhibition(1, "Old")
    \/ \E r \in RowIds, u \in UserIds :
          update_exhibition(1, r, Body({"user_id"}, u, TRUE, "New"))
    \/ DOMAIN awards = {} /\ add_award(1, "Old")
    \/ \E e \in UserIds : resend_verification(e)
    \/ \E c \in Callers, p \in Passwords : delete_account(c, p)
    \/ cleanup_unverified_users
    \/ Tick

SpecDeletion == InitVerify /\ [][NextDeletion]_vars

\* ===================================================================
\* Properties of the account subsystem
\* ===================================================================
EmailTaken(email) == \E u \in DOMAIN users : users[u].email = email
SlugTaken(slug) == \E u \in DOMAIN users : users[u].slug = slug

\* C3: a registration whose email an existing user has is answered 400
\* "email_taken", one whose slug an existing user has is answered 400, and neither
\* adds a users row or a verification token; no registration that is not
\* answered 201 changes the users table.
C3_DuplicateRegistrationRejected ==
    [][resp'.op = "register" =>
          /\ EmailTaken(resp'.key) =>
                resp'.code = 400 /\ resp'.detail = "email_taken"
          /\ SlugTaken(resp'.arg) =>
                resp'.code = 400 /\ resp'.detail \in {"email_taken", "slug_taken"}
          /\ resp'.code # 201 => users' = users /\ tokens' = tokens]_vars

C3_Witness ==
    /\ resp.op = "register" /\ resp.code = 400 /\ resp.detail = "email_taken"
    /\ EmailTaken(resp.key)
    /\ ~SlugTaken(resp.arg)

\* C4: in every reachable state no two users have the same email and no two
\* users have the same slug.
C4_EmailAndSlugUnique ==
    \A u1, u2 \in DOMAIN users :
        u1 # u2 => users[u1].email # users[u2].email /\ users[u1].slug # users[u2].slug

\* A user has moved to the empty slug (which the handler's own check lets
\* through) while another account exists, and the other account's attempt to
\* take it too was refused.
C4_Witness ==
    /\ resp.op = "update_basic_info" /\ resp.code = 500 /\ resp.detail = "integrity_error"
    /\ resp.key = EmptySlug
    /\ Cardinality(DOMAIN users) = 2
    /\ \E u \in DOMAIN users : users[u].slug = EmptySlug

FreshRow(tok) ==
    \E t \in tokens : t.token = tok /\ ~t.is_used /\ t.expiry_date > now

TokenEmail(tok) == (CHOOSE t \in tokens : t.token = tok).email

VerifiedAndUsed(tok, email) ==
    /\ \E u \in DOMAIN users' : users'[u].email = email /\ users'[u].is_verified
    /\ \E t \in tokens' : t.token = tok /\ t.is_used

C6_OneTokenPerEmail ==
    /\ \A t1, t2 \in tokens : t1.email = t2.email => t1 = t2
    /\ resp.op = "verify_email" /\ resp.code = 200 =>
          \A t \in DOMAIN issued : issued[t] = issued[resp.key] => t <= resp.key

\* A token was reissued for an email and the older token was then refused.
C6_Witness ==
    /\ resp.op = "verify_email" /\ resp.code = 400
    /\ \E t \in DOMAIN issued :
          /\ t > resp.key /\ resp.key \in DOMAIN issued /\ issued[t] = issued[resp.key]
          /\ \E r \in tokens : r.token = t /\ ~r.is_used /\ r.expiry_date > now
          /\ EmailTaken(issued[t])

\* C7: login answers 401 exactly when the email is unknown or the password
\* does not match, 403 exactly when the credentials are right and the account
\* is unverified or inactive, and 200 otherwise; only a 200 issues a token or
\* writes last_login; and an account that logs in was loaded verified or has
\* passed verify_email.
C7_LoginRequiresVerifiedActive ==
    [][resp'.op = "login" =>
          LET u == get_user_by_email(resp'.key)
              credentials == /\ u # None
                             /\ verify_password(resp'.arg, users[u].password)
              allowed == credentials /\ users[u].is_verified /\ users[u].is_active
          IN
          /\ resp'.code = 401 <=> ~credentials
          /\ resp'.code = 403 <=> credentials /\ ~allowed
          /\ resp'.code = 200 <=> allowed
          /\ allowed => /\ resp'.key \in sessions'
                        /\ users'[u].last_login = now
                        /\ verified_by[u] \in {"seed", "token"}
          /\ ~allowed => sessions' = sessions /\ users' = users]_vars

\* An account loaded unverified has logged in after verify_email.
C7_Witness ==
    /\ resp.op = "login" /\ resp.code = 200
    /\ \E u \in DOMAIN users : users[u].email = resp.key /\ verified_by[u] = "token"

\* ===================================================================
\* Properties of the gallery
\* ===================================================================
Hidden(a) == artworks[a].privacy \in {"private", "unlisted"}

FilterSpace ==
    {ArtworkFilter(s, p, sb, so, pg, sz) :
        s \in {"unset", "completed"}, p \in {"unset"} \cup ArtworkPrivacy,
        sb \in {"created_at"}, so \in {"desc"},
        pg \in 1..2, sz \in 1..2}

StatusMatches(a, f) == f.status = "unset" \/ artworks[a].status = f.status

\* C2: get_user_artworks with a viewer_id other than the owner's id (None
\* included) lists only public artworks whatever privacy the filter asks for,
\* and total counts exactly the owner's public artworks (of the requested
\* status); with viewer_id the owner's id the privacy filter is applied and
\* total counts the owner's artworks of the requested privacy.
C2_NonOwnerSeesPublicOnly ==
    \A u \in UserIds, v \in UserIds \cup {None}, f \in FilterSpace :
        LET r == get_user_artworks(u, f, v) IN
        /\ \A a \in Range(r.artworks) : artworks[a].user_id = u
        /\ v # u =>
              /\ \A a \in Range(r.artworks) : artworks[a].privacy = "public"
              /\ r.total = Cardinality({a \in DOMAIN artworks :
                                          /\ artworks[a].user_id = u
                                          /\ artworks[a].privacy = "public"
                                          /\ StatusMatches(a, f)})
        /\ v = u =>
              /\ \A a \in Range(r.artworks) :
                    f.privacy = "unset" \/ artworks[a].privacy = f.privacy
              /\ r.total = Cardinality({a \in DOMAIN artworks :
                                          /\ artworks[a].user_id = u
                                          /\ StatusMatches(a, f)
                                          /\ \/ f.privacy = "unset"
                                             \/ artworks[a].privacy = f.privacy})

\* The owner has listed their private artworks and got one, while the same
\* filter from an anonymous viewer and from the other user lists the owner's one
\* public artwork instead.
C2_Witness ==
    /\ resp.op = "get_my_artworks" /\ resp.code = 200
    /\ resp.arg.privacy = "private" /\ resp.total = 1
    /\ \A a \in resp.items : artworks[a].privacy = "private"
    /\ \E a \in DOMAIN artworks :
          /\ artworks[a].privacy = "public" /\ artworks[a].user_id = resp.key
          /\ \A v \in (UserIds \cup {None}) \ {resp.key} :
                LET r == get_user_artworks(resp.key, resp.arg, v)
                IN r.total = 1 /\ r.artworks = <<a>>

\* C10 as stated: every update_artwork that sets status to completed stamps an
\* unset completed_at with the current time and leaves a set one unchanged.
C10_EveryUpdateToCompletedStampsOnce ==
    [][resp'.op = "update_artwork" /\ resp'.code = 200 /\ resp'.arg.status = "completed" =>
          IF artworks[resp'.key].completed_at = None
          THEN artworks'[resp'.key].completed_at = now
          ELSE artworks'[resp'.key].completed_at = artworks[resp'.key].completed_at]_vars

\* C10 amended: an update_artwork whose body does not carry completed_at and
\* sets status to completed stamps an unset completed_at with the current time;
\* no update whose body does not carry completed_at changes a set completed_at.
C10_UpdateWithoutDateStampsOnce ==
    [][resp'.op = "update_artwork" /\ resp'.code = 200 /\ resp'.arg.completed_at = None =>
          IF artworks[resp'.key].completed_at = None
          THEN artworks'[resp'.key].completed_at =
                   IF resp'.arg.status = "completed" THEN now ELSE None
          ELSE artworks'[resp'.key].completed_at = artworks[resp'.key].completed_at]_vars

\* A later update to completed, with no completed_at in the body, has left the
\* earlier stamp in place.
C10_Witness ==
    /\ resp.op = "update_artwork" /\ resp.code = 200
    /\ resp.arg.status = "completed" /\ resp.arg.completed_at = None
    /\ artworks[resp.key].completed_at \in 0..(now - 1)

\* ===================================================================
\* Properties of the blog
\* ===================================================================
StudioPosts(u) == {p \in DOMAIN posts : posts[p].user_id = u /\ posts[p].post_type = "STUDIO"}

\* C8: create_blog_post with post_type STUDIO by a user who has a STUDIO post
\* (published or not) is answered 400 and adds no row; with requests handled
\* one at a time every user has at most one STUDIO post in every reachable
\* state.
C8_OneStudioPostPerUser ==
    /\ [](\A u \in UserIds : Cardinality(StudioPosts(u)) <= 1)
    /\ [][/\ resp'.op = "create_blog_post" /\ resp'.key = "STUDIO"
          /\ get_current_user(resp'.who) # None
          /\ StudioPosts(get_current_user(resp'.who)) # {}
          => resp'.code = 400 /\ posts' = posts]_vars

\* A second STUDIO post was refused to a user whose STUDIO post is unpublished.
C8_Witness ==
    /\ resp.op = "create_blog_post" /\ resp.code = 400 /\ resp.key = "STUDIO"
    /\ \E p \in StudioPosts(get_current_user(resp.who)) : ~posts[p].is_published

\* C9: nothing but the handler's own query stands between a request and its
\* insert: the commit of every create_blog_post request that passed the query
\* inserts its row, whatever other requests have committed since, so two
\* STUDIO requests of one user that both pass the query both insert.
C9_CommitAfterQueryAlwaysInserts ==
    [][resp'.op = "create_blog_post_commit" =>
          /\ resp'.code = 200
          /\ \E p \in DOMAIN posts' \ DOMAIN posts :
                /\ posts'[p].user_id = pending[resp'.key].user_id
                /\ posts'[p].post_type = pending[resp'.key].post_type
                /\ posts' = (p :> posts'[p]) @@ posts]_vars

\* Two STUDIO requests of one user have both committed: the user has two
\* STUDIO posts.
C9_Witness ==
    /\ resp.op = "create_blog_post_commit" /\ resp.code = 200
    /\ \E u \in UserIds : Cardinality(StudioPosts(u)) = 2
    /\ \A r \in RequestIds : r \in DOMAIN pending /\ pending[r].pc = "done"

\* ===================================================================
\* Properties of the artwork histories
\* ===================================================================
HistoriesOf(tbl, a) == {h \in DOMAIN tbl : tbl[h].artwork_id = a}

\* C11: after a delete_artwork that succeeds no history of that artwork and no
\* image of those histories remains; and in every reachable state every
\* history belongs to an existing artwork and every history image to an
\* existing history.
C11_DeleteArtworkCascades ==
    /\ [](/\ \A h \in DOMAIN histories : histories[h].artwork_id \in DOMAIN artworks
          /\ \A i \in DOMAIN history_images :
                history_images[i].history_id \in DOMAIN histories)
    /\ [][resp'.op = "delete_artwork" /\ resp'.code = 204 =>
             /\ resp'.key \notin DOMAIN artworks'
             /\ HistoriesOf(histories', resp'.key) = {}
             /\ \A i \in DOMAIN history_images' :
                   history_images'[i].history_id \notin HistoriesOf(histories, resp'.key)]_vars

\* An artwork that had a history with an image was deleted, and another
\* artwork's history is still there.
C11_Witness ==
    /\ resp.op = "delete_artwork" /\ resp.code = 204
    /\ resp.items # {} /\ resp.total = 1
    /\ DOMAIN history_images = {}
    /\ DOMAIN histories # {}

\* C12: every step of create_history, of HistoryService.delete_history and of
\* the DELETE history route that changes the set of an artwork's histories
\* leaves that artwork's history_count equal to the number of its histories.
C12_HistoryCountIsRowCount ==
    [][resp'.op \in {"add_history", "HistoryService.delete_history", "delete_history"} =>
          \A a \in DOMAIN artworks' :
              HistoriesOf(histories', a) # HistoriesOf(histories, a) =>
                  artworks'[a].history_count =
                      Cardinality(HistoriesOf(histories', a))]_vars

RowsOf(u) == {a \in DOMAIN artworks : artworks[a].user_id = u}

DistinctViews(rows) ==
    \A a, b \in rows : a # b => artworks[a].view_count # artworks[b].view_count

MostViewed(rows) == CHOOSE m \in rows : \A a \in rows : artworks[a].view_count <= artworks[m].view_count

StatsCounts(st, rows) ==
    /\ st.total_artworks = Cardinality(rows)
    /\ st.total_artworks = st.completed_artworks + st.work_in_progress + st.archived_artworks
    /\ st.total_views = SumOver(rows, [a \in rows |-> artworks[a].view_count])
    /\ st.total_likes = SumOver(rows, [a \in rows |-> artworks[a].like_count])

StatsOfNone(st) ==
    /\ st.total_artworks = 0 /\ st.completed_artworks = 0 /\ st.work_in_progress = 0
    /\ st.archived_artworks = 0 /\ st.total_views = 0 /\ st.total_likes = 0
    /\ st.total_histories = 0
    /\ st.most_viewed_artwork = None /\ st.recent_artwork = None

\* C15 as stated: the statistics of a user without artworks are zeros and no
\* picks; those of a user with artworks of pairwise distinct view counts name
\* the artwork of greatest view_count as most viewed, and count and sum the
\* user's rows.
C15_MostViewedIsTheMaximum ==
    resp.op = "get_my_artwork_stats" /\ resp.code = 200 =>
        LET rows == RowsOf(resp.key) IN
        IF rows = {} THEN StatsOfNone(resp.stats)
        ELSE DistinctViews(rows) =>
                /\ resp.stats.most_viewed_artwork = MostViewed(rows)
                /\ StatsCounts(resp.stats, rows)

\* C15 (amended): the same, the most viewed artwork being named only when its
\* view_count is positive, and being absent otherwise.
C15_MostViewedIsThePositiveMaximum ==
    resp.op = "get_my_artwork_stats" /\ resp.code = 200 =>
        LET rows == RowsOf(resp.key) IN
        IF rows = {} THEN StatsOfNone(resp.stats)
        ELSE DistinctViews(rows) =>
                /\ resp.stats.most_viewed_artwork =
                       IF artworks[MostViewed(rows)].view_count > 0
                       THEN MostViewed(rows) ELSE None
                /\ StatsCounts(resp.stats, rows)

\* Statistics of two artworks, the second one viewed and liked.
C15_Witness ==
    /\ resp.op = "get_my_artwork_stats" /\ resp.code = 200
    /\ resp.stats.total_artworks = 2
    /\ DistinctViews(RowsOf(resp.key))
    /\ resp.stats.most_viewed_artwork = 2
    /\ resp.stats.total_likes > 0
    /\ resp.stats.completed_artworks = 1

\* The slugs users have, and text s with the suffix -k.
TakenSlugs == {users[u].slug : u \in DOMAIN users}

Suffixed(text, k) == text \o <<"-">> \o Decimal(k)

\* C14: generate_unique_slug(base) returns s, base in lower case with "-" for
\* every space, when no user has slug s, and otherwise s-k for the least
\* k >= 1 such that no user has slug s-k; what it returns is no user's slug,
\* and the loop body runs at most once per user.
C14_GenerateUniqueSlug ==
    resp.op = "generate_unique_slug" =>
        LET text == str_replace(str_lower(resp.arg)) IN
        /\ resp.key \notin TakenSlugs
        /\ resp.total <= Cardinality(DOMAIN users)
        /\ text \notin TakenSlugs => resp.key = text
        /\ text \in TakenSlugs =>
              \E k \in 1..(Cardinality(DOMAIN users) + 1) :
                  /\ resp.key = Suffixed(text, k)
                  /\ \A j \in 1..(k - 1) : Suffixed(text, j) \in TakenSlugs

\* With p and p-1 taken, "P" gives p-2.
C14_Witness ==
    /\ resp.op = "generate_unique_slug"
    /\ resp.arg = <<"P">>
    /\ TakenSlugs = {<<"p">>, <<"p", "-", "1">>}
    /\ resp.key = <<"p", "-", "2">>

\* C16: a run of the cleanup job deletes only users that are unverified and
\* were created at least 24 hours before it, and a verified user stays a
\* verified user in every step.
C16_CleanupDeletesOnlyOldUnverified ==
    [][/\ resp'.op = "cleanup" =>
             \A u \in DOMAIN users \ DOMAIN users' :
                 /\ users[u].is_verified = FALSE
                 /\ users[u].created_at + CleanupAgeMinutes <= now
       /\ \A u \in DOMAIN users :
             users[u].is_verified => u \in DOMAIN users' /\ users'[u].is_verified]_vars

\* A run deleted a user while a user verified by token before it is kept.
C16_Witness ==
    /\ resp.op = "cleanup" /\ resp.key = 1
    /\ Cardinality(DOMAIN users) = 1
    /\ \E u \in DOMAIN users : verified_by[u] = "token"

C18_StorageFailureNeverBlocksDelete ==
    [][/\ (/\ resp'.op = "delete_history"
           /\ resp'.key \in DOMAIN histories
           /\ histories[resp'.key].artwork_id = resp'.arg
           /\ resp'.arg \in DOMAIN artworks
           /\ artworks[resp'.arg].user_id = get_current_user(resp'.who))
          => resp'.code = 200 /\ resp'.key \notin DOMAIN histories'
       /\ (resp'.op = "delete_blog_post" /\ resp'.detail = "deleted")
          => resp'.code = 200 /\ resp'.key \notin DOMAIN posts'
       /\ (resp'.op = "delete_account" /\ resp'.detail = "deleted")
          => resp'.code = 200 /\ get_current_user(resp'.who) \notin DOMAIN users']_vars

\* The URLs rows refer to, and the objects the delete request answered by
\* resp' called delete_s3_file for.
ReferencedUrls ==
    ({posts[p].featured_image : p \in DOMAIN posts} \ {NoUrl})
        \cup UNION {posts[p].content_images : p \in DOMAIN posts}

DeleteTargets ==
    LET slug == users[get_current_user(resp'.who)].slug IN
    IF resp'.op = "delete_blog_post"
    THEN ({posts[resp'.key].featured_image} \ {NoUrl})
             \cup {o \in posts[resp'.key].content_images : o[2] = slug}
    ELSE user_s3_files(slug)

\* C19: delete_blog_post and delete_account remove from storage the objects
\* whose delete succeeded whether or not the database change is then
\* committed, and restore none; when the commit fails every row is as before,
\* and when it succeeds the objects whose delete failed are still stored.
C19_StorageAndDatabaseNotCoupled ==
    [][resp'.op \in {"delete_blog_post", "delete_account"}
          /\ resp'.detail \in {"deleted", "db_error"} =>
            /\ s3' = s3 \ (DeleteTargets \ resp'.items)
            /\ resp'.items \cap s3 \subseteq s3'
            /\ resp'.detail = "db_error" =>
                  resp'.code = 500 /\ posts' = posts /\ users' = users
            /\ resp'.detail = "deleted" =>
                  IF resp'.op = "delete_blog_post"
                  THEN resp'.key \notin DOMAIN posts'
                  ELSE get_current_user(resp'.who) \notin DOMAIN users']_vars

\* A post is left whose featured image is no longer stored, and the delete
\* just committed left an object stored that no row refers to.
C19_Witness ==
    /\ resp.op = "delete_blog_post" /\ resp.code = 200
    /\ resp.items # {} /\ resp.items \subseteq s3 /\ resp.items \cap ReferencedUrls = {}
    /\ \E p \in DOMAIN posts :
          posts[p].featured_image # NoUrl /\ posts[p].featured_image \notin s3

\* The refresh tokens issued to user u, and the last of them.
RefreshTokensOf(u) == {t \in DOMAIN refresh_tokens : refresh_tokens[t].user_id = u}

LatestRefreshToken(u) ==
    CHOOSE t \in RefreshTokensOf(u) : \A x \in RefreshTokensOf(u) : x <= t

\* C20: of the refresh tokens of a user only the one issued last is not
\* revoked, and verify_refresh_token returns a user exactly when called with
\* the last token issued to that user before it expired: nothing for an
\* earlier token, for an expired token and for an unknown token.
C20_OnlyLatestRefreshTokenVerifies ==
    /\ [](\A u \in UserIds : \A t \in RefreshTokensOf(u) :
              refresh_tokens[t].is_revoked = (t # LatestRefreshToken(u)))
    /\ [][resp'.op = "verify_refresh_token" =>
             LET t == resp'.key IN
             IF /\ t \in DOMAIN refresh_tokens
                /\ t = LatestRefreshToken(refresh_tokens[t].user_id)
                /\ now < refresh_tokens[t].expires_at
             THEN resp'.who = refresh_tokens[t].user_id
             ELSE resp'.who = None]_vars

\* The second token of user 1 returned user 1; the first one is revoked.
C20_Witness ==
    /\ resp.op = "verify_refresh_token" /\ resp.who = 1
    /\ resp.key = 3
    /\ RefreshTokensOf(1) = {1, 3}
    /\ refresh_tokens[1].is_revoked
    /\ now > 0

\* The id the three YouTube URL forms carry.
IsYoutubeForm(url) ==
    /\ url # NoUrl
    /\ <<url[1], url[2]>> \in {<<"youtube.com", "watch?v=">>, <<"youtu.be", "">>,
                               <<"youtube.com", "embed/">>}
    /\ Len(url[3]) = 11

\* C21: a history the owner of an artwork adds with media_type youtube (and no
\* images) is stored, with the video id of its media URL when the URL has one
\* of the three YouTube forms and with no id when the URL is of another site.
C21_YoutubeVideoIdStored ==
    [][\A req \in resp'.items :
          /\ resp'.op = "add_history"
          /\ req[1] = "youtube"
          /\ resp'.arg = FALSE
          /\ resp'.key \in DOMAIN artworks
          /\ artworks[resp'.key].user_id = get_current_user(resp'.who)
          /\ req[2] # NoUrl
          /\ IsYoutubeForm(req[2]) \/ req[2][1] \notin {"youtube.com", "youtu.be"}
          => /\ resp'.code = 200
             /\ NewHistoryId \in DOMAIN histories'
             /\ histories'[NewHistoryId].youtube_video_id =
                    IF IsYoutubeForm(req[2]) THEN req[2][3] ELSE NoId]_vars

\* C22: create_history adds a history only to an artwork of the caller; for
\* a missing artwork it answers 404 and for an artwork of another user 403,
\* adding no row and leaving every history_count; on success the order_index
\* of the new history is the number of histories the artwork had.
C22_HistoryOnlyOnOwnArtwork ==
    [][resp'.op = "add_history" /\ get_current_user(resp'.who) # None =>
          LET a == resp'.key
              caller == get_current_user(resp'.who)
          IN
          /\ a \notin DOMAIN artworks => resp'.code = 404
          /\ a \in DOMAIN artworks /\ artworks[a].user_id # caller => resp'.code = 403
          /\ resp'.code \in {403, 404} =>
                /\ a \notin DOMAIN artworks \/ artworks[a].user_id # caller
                /\ histories' = histories
                /\ artworks' = artworks
          /\ histories' # histories =>
                /\ a \in DOMAIN artworks /\ artworks[a].user_id = caller
                /\ DOMAIN histories' = DOMAIN histories \cup {NewHistoryId}
                /\ histories'[NewHistoryId].artwork_id = a
          /\ resp'.code = 200 =>
                /\ NewHistoryId \in DOMAIN histories' \ DOMAIN histories
                /\ histories'[NewHistoryId].order_index =
                       Cardinality(HistoriesOf(histories, a))]_vars

\* A second history was added to an artwork: it has order_index 1.
C22_Witness ==
    /\ resp.op = "add_history" /\ resp.code = 200
    /\ \E h \in DOMAIN histories :
          histories[h].artwork_id = resp.key /\ histories[h].order_index = 1

\* C23: every toggle_like call on an existing artwork increases its like_count
\* by exactly 1, whoever calls and however often, and every increment_view_count
\* call its view_count by exactly 1; neither count of an artwork ever decreases;
\* on a missing artwork nothing changes (the routes answer 404).
C23_LikesAndViewsCountCalls ==
    [][/\ resp'.op = "toggle_artwork_like" /\ get_current_user(resp'.who) # None =>
             IF resp'.key \in DOMAIN artworks
             THEN /\ resp'.code = 200
                  /\ artworks' = [artworks EXCEPT ![resp'.key].like_count =
                                      artworks[resp'.key].like_count + 1]
             ELSE resp'.code = 404 /\ artworks' = artworks
       /\ resp'.op = "get_artwork" =>
             IF resp'.code = 200 /\ get_current_user(resp'.who) # artworks[resp'.key].user_id
             THEN artworks' = [artworks EXCEPT ![resp'.key].view_count =
                                   artworks[resp'.key].view_count + 1]
             ELSE artworks' = artworks
       /\ \A a \in DOMAIN artworks :
             /\ a \in DOMAIN artworks'
             /\ artworks'[a].like_count >= artworks[a].like_count
             /\ artworks'[a].view_count >= artworks[a].view_count]_vars

\* An artwork was liked twice and viewed twice, the last like by its owner.
C23_Witness ==
    /\ resp.op = "toggle_artwork_like" /\ resp.code = 200
    /\ get_current_user(resp.who) = artworks[resp.key].user_id
    /\ artworks[resp.key].like_count = 2
    /\ artworks[resp.key].view_count = 2

\* C24: update_exhibition and update_award, called by the owner of the row
\* (active or not), assign every key of the body that names an attribute of the
\* row: user_id changes the owner, is_active = TRUE revives the row.
C24_UpdateAssignsEveryAttribute ==
    [][resp'.op \in {"update_exhibition", "update_award"} =>
          LET tbl == IF resp'.op = "update_exhibition" THEN exhibitions ELSE awards
              after == IF resp'.op = "update_exhibition" THEN exhibitions' ELSE awards'
              caller == get_current_user(resp'.who)
          IN
          caller # None /\ profile_row_query(tbl, resp'.key, caller) =>
              /\ resp'.code = 200
              /\ \A f \in resp'.arg.keys \cap {"user_id", "is_active", "title_ko"} :
                    after[resp'.key][f] = resp'.arg[f]]_vars

\* C25: delete_exhibition and delete_award keep every row and set is_active
\* FALSE on a row of the caller (404 and no change otherwise); get_exhibitions,
\* get_awards and get_profile list exactly the active rows of the caller.
C25_SoftDeleteAndActiveListing ==
    [][/\ resp'.op \in {"delete_exhibition", "delete_award"} =>
             LET tbl == IF resp'.op = "delete_exhibition" THEN exhibitions ELSE awards
                 after == IF resp'.op = "delete_exhibition" THEN exhibitions' ELSE awards'
                 caller == get_current_user(resp'.who)
             IN
             caller # None =>
                 IF profile_row_query(tbl, resp'.key, caller)
                 THEN after = [tbl EXCEPT ![resp'.key].is_active = FALSE]
                 ELSE resp'.code = 404 /\ after = tbl
       /\ resp'.op = "get_exhibitions" /\ get_current_user(resp'.who) # None =>
             /\ resp'.code = 200
             /\ resp'.items = {r \in DOMAIN exhibitions :
                                  /\ exhibitions[r].user_id = get_current_user(resp'.who)
                                  /\ exhibitions[r].is_active}
       /\ resp'.op = "get_awards" /\ get_current_user(resp'.who) # None =>
             /\ resp'.code = 200
             /\ resp'.items = {r \in DOMAIN awards :
                                  /\ awards[r].user_id = get_current_user(resp'.who)
                                  /\ awards[r].is_active}
       /\ resp'.op = "get_profile" /\ get_current_user(resp'.who) # None =>
             /\ resp'.code = 200
             /\ resp'.items =
                   {<<"exhibition", r>> : r \in {x \in DOMAIN exhibitions :
                        /\ exhibitions[x].user_id = get_current_user(resp'.who)
                        /\ exhibitions[x].is_active}}
                   \cup {<<"award", r>> : r \in {x \in DOMAIN awards :
                        /\ awards[x].user_id = get_current_user(resp'.who)
                        /\ awards[x].is_active}}]_vars

\* C26: a STUDIO post is permanent.  delete_blog_post on a STUDIO post answers
\* 400 and deletes nothing; update_blog_post never changes the post_type of a
\* STUDIO post, and an attempt to answers 400 and changes no field; an update or
\* a delete by a user who is not the owner answers 403 and changes nothing.
C26_StudioPostPermanent ==
    [][resp'.op \in {"update_blog_post", "delete_blog_post"}
          /\ resp'.key \in DOMAIN posts /\ get_current_user(resp'.who) # None =>
          LET post == posts[resp'.key]
              owner == post.user_id = get_current_user(resp'.who)
          IN
          /\ ~owner => resp'.code = 403 /\ posts' = posts /\ s3' = s3
          /\ owner /\ post.post_type = "STUDIO" /\ resp'.op = "delete_blog_post" =>
                resp'.code = 400 /\ posts' = posts /\ s3' = s3
          /\ post.post_type = "STUDIO" /\ resp'.op = "update_blog_post" =>
                /\ resp'.key \in DOMAIN posts'
                /\ posts'[resp'.key].post_type = "STUDIO"
                /\ owner /\ resp'.arg \notin {"unset", "STUDIO"} =>
                      resp'.code = 400 /\ posts' = posts]_vars

\* C27: delete_uploaded_file deletes an object only when its key lies under
\* {folder}/{slug of the caller}/; for a file under the prefix of another slug
\* it answers 403 and deletes nothing.
C27_DeleteOnlyUnderOwnPrefix ==
    [][resp'.op = "delete_uploaded_file" /\ get_current_user(resp'.who) # None =>
          LET slug == users[get_current_user(resp'.who)].slug IN
          /\ \A o \in s3 \ s3' : o[2] = slug
          /\ resp'.key # NoUrl /\ resp'.key[2] # slug => resp'.code = 403 /\ s3' = s3]_vars

\* The artworks of a user that are not private, and the statistics computed
\* over a set of artworks and their histories only.
VisibleRows(user_id) == {a \in RowsOf(user_id) : artworks[a].privacy # "private"}

StatsOver(rows) ==
    LET view_count == [a \in rows |-> artworks[a].view_count]
        like_count == [a \in rows |-> artworks[a].like_count]
        created_at == [a \in rows |-> artworks[a].created_at]
    IN [total_artworks |-> Cardinality(rows),
        completed_artworks |-> Cardinality({a \in rows : artworks[a].status = "completed"}),
        work_in_progress |->
            Cardinality({a \in rows : artworks[a].status = "work_in_progress"}),
        archived_artworks |-> Cardinality({a \in rows : artworks[a].status = "archived"}),
        total_views |-> SumOver(rows, view_count),
        total_likes |-> SumOver(rows, like_count),
        total_histories |->
            Cardinality({h \in DOMAIN histories : histories[h].artwork_id \in rows}),
        most_viewed_artwork |->
            IF rows # {} /\ view_count[MaxBy(rows, view_count)] > 0
            THEN MaxBy(rows, view_count) ELSE None,
        recent_artwork |-> IF rows # {} THEN MaxBy(rows, created_at) ELSE None]

\* C28: what the public gallery listing, the public gallery statistics and
\* the history listing answer does not depend on private artworks: each answer
\* is the one the state without the private artworks and their histories gives.
C28_PrivateArtworksNotObservable ==
    [][/\ resp'.op = "get_user_gallery_stats" /\ resp'.code = 200 =>
             resp'.stats = StatsOver(VisibleRows(get_user_by_slug(resp'.key)))
       /\ resp'.op = "get_user_gallery_artworks" /\ resp'.code = 200 =>
             /\ resp'.items \subseteq VisibleRows(get_user_by_slug(resp'.key))
             /\ resp'.total = Cardinality({a \in RowsOf(get_user_by_slug(resp'.key)) :
                                              artworks[a].privacy = "public"})
       /\ resp'.op = "get_histories" =>
             resp'.items =
                 IF resp'.key \in DOMAIN artworks /\ artworks[resp'.key].privacy = "private"
                 THEN {}
                 ELSE {h \in DOMAIN histories : histories[h].artwork_id = resp'.key}]_vars

\* C29: the bulk cleanup run for a user (by delete_account for the caller, by
\* the hourly job for the users it deletes) removes no object that was
\* uploaded by a different user who still exists.
C29_CleanupSparesOtherUsersObjects ==
    [][/\ resp'.op = "delete_account" =>
             \A o \in s3 \ s3' :
                 \/ uploaded_by[o] = get_current_user(resp'.who)
                 \/ uploaded_by[o] \notin DOMAIN users'
       /\ resp'.op = "cleanup" =>
             \A o \in s3 \ s3' :
                 uploaded_by[o] \in expired_users \/ uploaded_by[o] \notin DOMAIN users']_vars

\* Every row that belongs to a user refers to a user that exists.
RowsReferToUsers ==
    /\ \A a \in DOMAIN artworks : artworks[a].user_id \in DOMAIN users
    /\ \A h \in DOMAIN histories : histories[h].artwork_id \in DOMAIN artworks
    /\ \A i \in DOMAIN history_images : history_images[i].history_id \in DOMAIN histories
    /\ \A p \in DOMAIN posts : posts[p].user_id \in DOMAIN users
    /\ \A r \in DOMAIN exhibitions : exhibitions[r].user_id \in DOMAIN users
    /\ \A r \in DOMAIN awards : awards[r].user_id \in DOMAIN users
    /\ \A t \in tokens : get_user_by_email(t.email) # None

\* C30: delete_account answers 400 and deletes nothing when the password is
\* missing or wrong; when it succeeds the user and every row of the user are
\* gone; when the database fails it answers 500 and every row remains; and in
\* every reachable state every row refers to a user that exists.
C30_DeleteAccountAllOrNothing ==
    /\ []RowsReferToUsers
    /\ [][resp'.op = "delete_account" /\ get_current_user(resp'.who) # None =>
             LET user == get_current_user(resp'.who)
                 kept == /\ users' = users /\ tokens' = tokens /\ artworks' = artworks
                         /\ histories' = histories /\ history_images' = history_images
                         /\ posts' = posts /\ exhibitions' = exhibitions
                         /\ awards' = awards
             IN
             /\ resp'.key = 0 \/ ~verify_password(resp'.key, users[user].password) =>
                   resp'.code = 400
             /\ resp'.code \in {400, 500} => kept
             /\ resp'.code = 200 =>
                   /\ user \notin DOMAIN users'
                   /\ \A a \in DOMAIN artworks' : artworks'[a].user_id # user
                   /\ \A h \in DOMAIN histories' : histories'[h].artwork_id \in DOMAIN artworks'
                   /\ \A i \in DOMAIN history_images' :
                         history_images'[i].history_id \in DOMAIN histories'
                   /\ \A p \in DOMAIN posts' : posts'[p].user_id # user
                   /\ \A r \in DOMAIN exhibitions' : exhibitions'[r].user_id # user
                   /\ \A r \in DOMAIN awards' : awards'[r].user_id # user
                   /\ \A t \in tokens' : t.email # users[user].email]_vars

====
